---- MODULE Spec2Model ----
(***************************************************************************)
(* Dashboard save/delete pipeline (pkg/services/dashboards) and the GitLab *)
(* social connector (pkg/login/social) as state machines.                  *)
(*                                                                         *)
(* Strings the code inspects character by character (Title, Uid) are       *)
(* sequences of one-character strings; errors are the names of the Go      *)
(* error values.                                                           *)
(***************************************************************************)
EXTENDS Integers, Sequences, FiniteSets, TLC

\* ------------------------------------------------------------------------
\* Bounds of the model
\* ------------------------------------------------------------------------
MaxId == 1          \* dashboard ids of the store are 1..MaxId (0 = not yet stored)
MaxVersion == 2     \* stored versions are 1..MaxVersion
MaxPages == 3       \* pages of the group listing
MaxFetches == 4     \* page fetches followed in one GetGroups call

\* ------------------------------------------------------------------------
\* Program constants
\* ------------------------------------------------------------------------
UidMaxLen == 40
RootFolderName == <<"G", "e", "n", "e", "r", "a", "l">>

NoErr == "nil"
Nil == "nil"

\* ------------------------------------------------------------------------
\* String helpers
\* ------------------------------------------------------------------------
IsSpace(c) == c \in {" ", "\t"}

RECURSIVE TrimLeft(_)
TrimLeft(s) == IF s # <<>> /\ IsSpace(Head(s)) THEN TrimLeft(Tail(s)) ELSE s

RECURSIVE TrimRight(_)
TrimRight(s) ==
    IF s # <<>> /\ IsSpace(s[Len(s)]) THEN TrimRight(SubSeq(s, 1, Len(s) - 1)) ELSE s

\* strings.TrimSpace
TrimSpace(s) == TrimRight(TrimLeft(s))

\* unicode simple folding restricted to the letters the model uses
ToLower(c) ==
    CASE c = "G" -> "g"
      [] c = "E" -> "e"
      [] c = "A" -> "a"
      [] OTHER -> c

\* strings.EqualFold
EqualFold(s, t) ==
    /\ Len(s) = Len(t)
    /\ \A i \in 1..Len(s) : ToLower(s[i]) = ToLower(t[i])

\* util.IsValidShortUID: ^[a-zA-Z0-9\-\_]*$
UidChars == {"a", "u", "A", "G", "e", "n", "r", "l", "g", "E", "0", "-", "_"}
IsValidShortUID(uid) == \A i \in 1..Len(uid) : uid[i] \in UidChars

RECURSIVE Rep(_, _)
Rep(c, n) == IF n = 0 THEN <<>> ELSE <<c>> \o Rep(c, n - 1)

\* ------------------------------------------------------------------------
\* Values
\* ------------------------------------------------------------------------
None == <<>>
Some(x) == <<x>>
IsSome(o) == o # <<>>
Val(o) == o[1]

\* one collaborator call: c the command or collaborator, id its subject,
\* r its answer; act, folder and msg are the mirror operation's fields
Ev(c, id, r) == [c |-> c, id |-> id, r |-> r, act |-> "", folder |-> 0, msg |-> ""]
MirrorEv(act, id, folder, msg, r) ==
    [c |-> "UpdateDashboard", id |-> id, r |-> r, act |-> act, folder |-> folder, msg |-> msg]

Calls(trace, c) == {i \in 1..Len(trace) : trace[i].c = c}
Called(trace, c) == Calls(trace, c) # {}

\* ------------------------------------------------------------------------
\* Persistence collaborators reached through bus.Dispatch
\* ------------------------------------------------------------------------
\* ValidateDashboardBeforeSaveCommand: the conflict of an overwrite=false save
\* with the stored version, and whether the parent folder changes
ValidateDashboardBeforeSave(store, dash, overwrite) ==
    LET existing == IF dash.Id \in DOMAIN store THEN store[dash.Id] ELSE None
    IN  IF IsSome(existing) /\ Val(existing).Version # dash.Version /\ ~overwrite
        THEN [err |-> "ErrDashboardVersionMismatch", IsParentFolderChanged |-> FALSE]
        ELSE [err |-> NoErr,
              IsParentFolderChanged |->
                  IsSome(existing) /\ Val(existing).FolderId # dash.FolderId]

\* GetProvisionedDashboardDataByIdQuery: the record of a dashboard id, if any
ProvisionedDataById(prov, id, fault) ==
    IF fault THEN [err |-> "ErrProvisioningQuery", found |-> FALSE]
    ELSE [err |-> NoErr, found |-> id \in prov]

\* Dashboard.GetDashboardIdForSavePermissionCheck
GetDashboardIdForSavePermissionCheck(dash) ==
    IF dash.Id = 0 THEN dash.FolderId ELSE dash.Id

\* guardian.CanSave: (bool, error) from the collaborator's answer
CanSaveErr(answer) ==
    CASE answer = "err" -> "ErrGuardian"
      [] answer = "no" -> "ErrDashboardUpdateAccessDenied"
      [] OTHER -> NoErr

\* ------------------------------------------------------------------------
\* buildSaveDashboardCommand, one operator per step; b is the build so far:
\* the dashboard (mutated in place by the code), the error, the collaborator
\* calls made and the pre-save validation's result
\* ------------------------------------------------------------------------
\* faulty variant: the trimmed title is not written back into the payload
Normalize_TitleNotWrittenBack(dash) ==
    LET title == TrimSpace(dash.Title)
        uid == TrimSpace(dash.Uid)
    IN  [dash EXCEPT !.Title = title, !.Uid = uid, !.Data.uid = uid]

Normalize(dash) ==
    LET title == TrimSpace(dash.Title)
        uid == TrimSpace(dash.Uid)
    IN  [dash EXCEPT !.Title = title, !.Uid = uid,
                     !.Data.title = title, !.Data.uid = uid]

\* faulty variant: the parent folder id is compared with 1 instead of 0
FolderWithParent_OffByOne(dash) == dash.IsFolder /\ dash.FolderId > 1

FolderWithParent(dash) == dash.IsFolder /\ dash.FolderId > 0

ReservedFolderName(dash) == dash.IsFolder /\ EqualFold(dash.Title, RootFolderName)

UidError(uid) ==
    IF ~IsValidShortUID(uid) THEN "ErrDashboardInvalidUid"
    ELSE IF Len(uid) > UidMaxLen THEN "ErrDashboardUidToLong"
    ELSE NoErr

LocalChecks(dash) ==
    IF dash.Title = <<>> THEN "ErrDashboardTitleEmpty"
    ELSE IF FolderWithParent(dash) THEN "ErrDashboardFolderCannotHaveParent"
    ELSE IF ReservedFolderName(dash) THEN "ErrDashboardFolderNameExists"
    ELSE UidError(dash.Uid)

StepLocal(dto) ==
    LET dash == Normalize(dto.Dashboard)
    IN  [dash |-> dash, err |-> LocalChecks(dash), trace |-> <<>>, folderChanged |-> FALSE]

StepAlerts(b, validateAlerts, ans) ==
    IF b.err # NoErr \/ ~validateAlerts THEN b
    ELSE [b EXCEPT !.err = ans.alerts,
                   !.trace = Append(@, Ev("ValidateDashboardAlerts", b.dash.Id, ans.alerts))]

\* faulty variant: the error of the pre-save validation is dropped
StepBeforeSave_DropsError(b, dto, store) ==
    IF b.err # NoErr THEN b
    ELSE LET v == ValidateDashboardBeforeSave(store, b.dash, dto.Overwrite)
         IN  [b EXCEPT !.folderChanged = v.IsParentFolderChanged,
                       !.trace = Append(@, Ev("ValidateDashboardBeforeSave", b.dash.Id, v.err))]

StepBeforeSave(b, dto, store) ==
    IF b.err # NoErr THEN b
    ELSE LET v == ValidateDashboardBeforeSave(store, b.dash, dto.Overwrite)
         IN  [b EXCEPT !.err = v.err,
                       !.folderChanged = v.IsParentFolderChanged,
                       !.trace = Append(@, Ev("ValidateDashboardBeforeSave", b.dash.Id, v.err))]

StepFolderGuard(b, ans) ==
    IF b.err # NoErr \/ ~b.folderChanged THEN b
    ELSE [b EXCEPT !.err = CanSaveErr(ans.folderGuard),
                   !.trace = Append(@, Ev("CanSave", b.dash.FolderId, ans.folderGuard))]

\* faulty variant: the lookup's result is never compared with nil
StepProvisioned_IgnoresRecord(b, validateProvisionedDashboard, prov, ans) ==
    IF b.err # NoErr \/ ~validateProvisionedDashboard THEN b
    ELSE LET q == ProvisionedDataById(prov, b.dash.Id, ans.provFault)
         IN  [b EXCEPT !.err = q.err,
                       !.trace = Append(@, Ev("GetProvisionedDashboardDataById", b.dash.Id,
                                              IF q.err # NoErr THEN q.err
                                              ELSE IF q.found THEN "found" ELSE Nil))]

StepProvisioned(b, validateProvisionedDashboard, prov, ans) ==
    IF b.err # NoErr \/ ~validateProvisionedDashboard THEN b
    ELSE LET q == ProvisionedDataById(prov, b.dash.Id, ans.provFault)
             e == IF q.err # NoErr THEN q.err
                  ELSE IF q.found THEN "ErrDashboardCannotSaveProvisionedDashboard"
                  ELSE NoErr
         IN  [b EXCEPT !.err = e,
                       !.trace = Append(@, Ev("GetProvisionedDashboardDataById", b.dash.Id,
                                              IF q.err # NoErr THEN q.err
                                              ELSE IF q.found THEN "found" ELSE Nil))]

StepGuard(b, ans) ==
    IF b.err # NoErr THEN b
    ELSE [b EXCEPT !.err = CanSaveErr(ans.guard),
                   !.trace = Append(@, Ev("CanSave",
                                          GetDashboardIdForSavePermissionCheck(b.dash),
                                          ans.guard))]

\* faulty variant: the command is stamped with the request's time even when it is zero
SaveDashboardCommand_AlwaysStamps(dto, dash) ==
    [Dashboard |-> dash.Data, Message |-> dto.Message, OrgId |-> dto.OrgId,
     Overwrite |-> dto.Overwrite, UserId |-> dto.User.UserId,
     FolderId |-> dash.FolderId, IsFolder |-> dash.IsFolder, PluginId |-> dash.PluginId,
     UpdatedAt |-> Some(dto.UpdatedAt)]

SaveDashboardCommand(dto, dash) ==
    [Dashboard |-> dash.Data, Message |-> dto.Message, OrgId |-> dto.OrgId,
     Overwrite |-> dto.Overwrite, UserId |-> dto.User.UserId,
     FolderId |-> dash.FolderId, IsFolder |-> dash.IsFolder, PluginId |-> dash.PluginId,
     UpdatedAt |-> IF dto.UpdatedAt # 0 THEN Some(dto.UpdatedAt) ELSE None]

\* returns the dashboard as the build left it, the command (None with an
\* error), the error and the collaborator calls made, in order
\* faulty variant: the provisioning check is made before the new folder's permission check
buildSaveDashboardCommand_ProvisionedBeforeFolderGuard(dto, validateAlerts, validateProvisionedDashboard, store, prov, ans) ==
    LET b == StepGuard(
                 StepFolderGuard(
                     StepProvisioned(
                         StepBeforeSave(
                             StepAlerts(StepLocal(dto), validateAlerts, ans),
                             dto, store),
                         validateProvisionedDashboard, prov, ans),
                     ans),
                 ans)
    IN  [dash |-> b.dash,
         cmd |-> IF b.err = NoErr THEN Some(SaveDashboardCommand(dto, b.dash)) ELSE None,
         err |-> b.err,
         trace |-> b.trace]

buildSaveDashboardCommand(dto, validateAlerts, validateProvisionedDashboard, store, prov, ans) ==
    LET b == StepGuard(
                 StepProvisioned(
                     StepFolderGuard(
                         StepBeforeSave(
                             StepAlerts(StepLocal(dto), validateAlerts, ans),
                             dto, store),
                         ans),
                     validateProvisionedDashboard, prov, ans),
                 ans)
    IN  [dash |-> b.dash,
         cmd |-> IF b.err = NoErr THEN Some(SaveDashboardCommand(dto, b.dash)) ELSE None,
         err |-> b.err,
         trace |-> b.trace]

\* ------------------------------------------------------------------------
\* The social connectors (pkg/login/social)
\* ------------------------------------------------------------------------
\* SocialMap: provider name -> connector; a name without an entry yields the
\* nil connector
\* faulty variant: a name without an entry yields a connector without mirroring support
SocialMap_MissingIsBase(authModule) ==
    CASE authModule = "gitlab" -> "SocialGitlab"
      [] OTHER -> "SocialBase"

SocialMap(authModule) ==
    CASE authModule = "gitlab" -> "SocialGitlab"
      [] authModule = "github" -> "SocialBase"
      [] OTHER -> Nil

\* SocialGitlab.repos, in configuration order
repos == << [OrgId |-> 1, RepoId |-> 10], [OrgId |-> 1, RepoId |-> 11] >>

RECURSIVE getRepoFrom(_, _)
getRepoFrom(rs, orgId) ==
    IF rs = <<>> THEN None
    ELSE IF Head(rs).OrgId = orgId THEN Some(Head(rs))
    ELSE getRepoFrom(Tail(rs), orgId)

getRepo(orgId) == getRepoFrom(repos, orgId)

\* SocialConnector.UpdateDashboard by connector kind: the error returned, or
\* "panic" for a nil connector and for the nil repo dereferenced at repo.DashboardsPath;
\* commitOk is the answer of the commit API
ConnectorUpdateDashboard(connect, orgId, commitOk) ==
    CASE connect = Nil -> "panic"
      [] connect = "SocialBase" -> NoErr
      [] OTHER -> IF ~IsSome(getRepo(orgId)) THEN "panic"
                  ELSE IF commitOk THEN NoErr
                  ELSE "ErrDashboardGitlabSync"

\* getDashboardFolder: 0 is "General", -1 is "unknown", k the title of folder k
getDashboardFolder(folderId, folderFault) ==
    IF folderId = 0 THEN 0
    ELSE IF folderFault THEN -1
    ELSE folderId

\* updateDashboard (dashboard_service.go): the mirror operation issued and its outcome
updateDashboard(id, folderId, orgId, action, user, message, folderFault, commitOk) ==
    MirrorEv(action, id, getDashboardFolder(folderId, folderFault), message,
             ConnectorUpdateDashboard(SocialMap(user.AuthModule), orgId, commitOk))

\* getPreviousDashboard
\* faulty variant: the stored dashboard is looked up for Version 0 as well
getPreviousDashboard_LooksUpVersionZero(store, newDashboard, queryFault) ==
    IF queryFault THEN None
    ELSE IF newDashboard.Id \in DOMAIN store THEN store[newDashboard.Id]
    ELSE None

getPreviousDashboard(store, newDashboard, queryFault) ==
    IF newDashboard.Version = 0 THEN None
    ELSE IF queryFault THEN None
    ELSE IF newDashboard.Id \in DOMAIN store THEN store[newDashboard.Id]
    ELSE None

\* the GetDashboardQuery that getPreviousDashboard dispatches, if any, and its
\* answer (the title lookups of getDashboardFolder show in the folder field
\* of the mirror operation)
getPreviousDashboardQuery(store, newDashboard, queryFault) ==
    IF newDashboard.Version = 0 THEN <<>>
    ELSE << Ev("GetDashboardQuery", newDashboard.Id,
               IF queryFault THEN "ErrQuery"
               ELSE IF newDashboard.Id \in DOMAIN store /\ IsSome(store[newDashboard.Id])
                    THEN NoErr
                    ELSE "ErrDashboardNotFound") >>

\* runs mirror operations in order; a panic ends the run
RECURSIVE RunMirror(_, _)
RunMirror(done, todo) ==
    IF todo = <<>> \/ (done # <<>> /\ done[Len(done)].r = "panic") THEN done
    ELSE RunMirror(Append(done, Head(todo)), Tail(todo))

\* the error variable after the operations of SaveDashboard's mirror block:
\* each call assigns err, the check follows the last one
MirrorErr(ops) == ops[Len(ops)].r

\* SaveDashboard lines 249-270: the mirror operations made and the resulting err
SaveDashboardMirror(store, dto, dash, ans) ==
    LET previousDashboard == getPreviousDashboard(store, dash, ans.queryFault)
        create == updateDashboard(dash.Id, dash.FolderId, dash.OrgId, "create", dto.User, "",
                                  ans.folderFault, ans.commitOk[2])
        ops == IF IsSome(previousDashboard)
               THEN IF Val(previousDashboard).FolderId # dash.FolderId
                    THEN << updateDashboard(dash.Id, Val(previousDashboard).FolderId,
                                            dash.OrgId, "delete", dto.User, "",
                                            ans.folderFault, ans.commitOk[1]),
                            create >>
                    ELSE << updateDashboard(dash.Id, dash.FolderId, dash.OrgId, "update",
                                            dto.User, dto.Message,
                                            ans.folderFault, ans.commitOk[2]) >>
               ELSE << create >>
        ran == RunMirror(<<>>, ops)
    IN  [ops |-> getPreviousDashboardQuery(store, dash, ans.queryFault) \o ran,
         err |-> MirrorErr(ran)]

\* ImportDashboard lines 374-381
ImportDashboardMirror(dto, dash, ans) ==
    LET ran == << updateDashboard(dash.Id, dash.FolderId, dash.OrgId, "create", dto.User,
                                  dto.Message, ans.folderFault, ans.commitOk[2]) >>
    IN  [ops |-> ran, err |-> MirrorErr(ran)]

\* ------------------------------------------------------------------------
\* State
\* ------------------------------------------------------------------------
VARIABLES
    dashboards,     \* the store: id -> None or Some([Version, FolderId])
    provisioned,    \* the dashboard ids that have a ProvisioningRecord
    call,           \* per caller: the service call in progress
    built,          \* a lone buildSaveDashboardCommand application
    groups          \* a GetGroups / IsGroupMember application

vars == <<dashboards, provisioned, call, built, groups>>

Procs == {1, 2}
Ids == 1..MaxId

\* a dashboard of the store that no request of the model names: it is stored
\* and provisioned from the start
OtherId == MaxId + 1
StoreIds == Ids \cup {OtherId}
Folders == {0, 1}
Orgs == {1, 2}

Idle == [op |-> "idle", pc |-> "idle"]
Off == [pc |-> "off"]

\* ------------------------------------------------------------------------
\* Inputs
\* ------------------------------------------------------------------------
Dashboard(id, uid, title, folderId, isFolder, version, orgId) ==
    [Id |-> id, Uid |-> uid, Title |-> title, FolderId |-> folderId,
     IsFolder |-> isFolder, Version |-> version, OrgId |-> orgId, PluginId |-> "",
     Data |-> [title |-> title, uid |-> uid, id |-> id, version |-> version]]

SignedInUser(orgId, token, authModule) ==
    [UserId |-> 1, OrgRole |-> "Editor", OrgId |-> orgId,
     Token |-> token, AuthModule |-> authModule]

\* the callers: in the org that has a repository mapping, a user without token
\* and one with a token of each kind of provider; in the org without mapping,
\* a user without token and one with a GitLab token
Users ==
    {SignedInUser(1, "", "")}
        \cup {SignedInUser(1, "token", m) : m \in {"gitlab", "github", "ldap"}}
        \cup {SignedInUser(2, "", ""), SignedInUser(2, "token", "gitlab")}

SaveDashboardDTO(user, overwrite, dash) ==
    [OrgId |-> user.OrgId, UpdatedAt |-> 0, User |-> user, Message |-> "msg",
     Overwrite |-> overwrite, Dashboard |-> dash]

\* requests of SaveDashboard and ImportDashboard: a well-formed dashboard in
\* every position of the store, and malformed folders
Requests ==
    {SaveDashboardDTO(u, ow, Dashboard(id, <<"u", " ">>, <<" ", "a">>, f, FALSE, v, u.OrgId)) :
        u \in Users, ow \in BOOLEAN, id \in 0..MaxId, f \in Folders, v \in 0..MaxVersion}
    \cup
    {SaveDashboardDTO(u, TRUE, Dashboard(0, <<"u">>, t, f, TRUE, 0, u.OrgId)) :
        u \in {SignedInUser(1, "", ""), SignedInUser(1, "token", "gitlab")},
        t \in {<<" ">>, <<"a">>}, f \in Folders}

\* requests of the provisioning flows, which overwrite; the user they carry is replaced
ProvisioningRequests ==
    {SaveDashboardDTO(u, TRUE, Dashboard(id, <<"u">>, <<"a">>, f, FALSE, v, u.OrgId)) :
        u \in {SignedInUser(1, "", ""), SignedInUser(1, "token", "gitlab"),
               SignedInUser(2, "", "")},
        id \in 0..MaxId, f \in Folders, v \in 0..MaxVersion}
    \cup
    {SaveDashboardDTO(SignedInUser(1, "", ""), TRUE, Dashboard(0, <<"u">>, t, f, TRUE, 0, 1)) :
        t \in {<<" ">>, <<"a">>}, f \in Folders}

MirrorAnswers ==
    [queryFault : BOOLEAN, folderFault : BOOLEAN, commitOk : [1..2 -> BOOLEAN]]

\* ------------------------------------------------------------------------
\* The save flows.  A call is entered with its build (the first thing each
\* flow does); every later bus dispatch or mirror block is a step of its own.
\* ------------------------------------------------------------------------
SaveFlows == {"SaveDashboard", "ImportDashboard", "SaveProvisionedDashboard",
              "SaveFolderForProvisionedDashboards"}

\* the user the flow builds with, the two validate flags of its build
\* faulty variant: the provisioning flows keep the user of the request
FlowUser_KeepsCaller(op, dto) == dto.User

FlowUser(op, dto) ==
    CASE op = "SaveProvisionedDashboard" ->
             [UserId |-> 0, OrgRole |-> "Admin", OrgId |-> dto.OrgId,
              Token |-> "", AuthModule |-> ""]
      [] op = "SaveFolderForProvisionedDashboards" ->
             [UserId |-> 0, OrgRole |-> "Admin", OrgId |-> 0,
              Token |-> "", AuthModule |-> ""]
      [] OTHER -> dto.User

FlowValidateAlerts(op) == op \in {"SaveDashboard", "SaveProvisionedDashboard"}

FlowValidateProvisioned(op) == op \in {"SaveDashboard", "ImportDashboard"}

\* where a flow continues after a successful build, and the error it returns there
\* faulty variant: an import without token skips the mirror, as SaveDashboard does
AfterBuild_ImportSkipsMirror(op, user) ==
    CASE op \in {"SaveProvisionedDashboard", "SaveFolderForProvisionedDashboards"} ->
             [pc |-> "persist", err |-> NoErr]
      [] OTHER ->
             [pc |-> IF user.Token # "" THEN "mirror" ELSE "persist", err |-> NoErr]

AfterBuild(op, user) ==
    CASE op \in {"SaveProvisionedDashboard", "SaveFolderForProvisionedDashboards"} ->
             [pc |-> "persist", err |-> NoErr]
      [] op = "SaveDashboard" ->
             [pc |-> IF user.Token # "" THEN "mirror" ELSE "persist", err |-> NoErr]
      [] OTHER ->
             IF user.Token # "" THEN [pc |-> "mirror", err |-> NoErr]
             ELSE [pc |-> "done", err |-> "ErrDashboardGitlabSync"]

\* history of a call: the stored dashboard and the ProvisioningRecord of its
\* subject as they were when the call was entered
Before(id) ==
    [stored |-> IF id \in Ids THEN dashboards[id] ELSE None,
     record |-> id \in provisioned]

\* the answers to draw for a build: one answer per collaborator the build can
\* reach (a collaborator it cannot reach keeps its first answer)
AnswersFor(req, validateAlerts, validateProvisionedDashboard) ==
    [alerts : IF validateAlerts THEN {NoErr, "ErrAlertValidation"} ELSE {NoErr},
     folderGuard :
         IF ValidateDashboardBeforeSave(dashboards, req.Dashboard,
                                        req.Overwrite).IsParentFolderChanged
         THEN {"yes", "no", "err"} ELSE {"yes"},
     provFault : IF validateProvisionedDashboard THEN BOOLEAN ELSE {FALSE},
     guard : {"yes", "no", "err"}]

FlowAnswers(op, req) ==
    AnswersFor(req, FlowValidateAlerts(op), FlowValidateProvisioned(op))

Enter(p, op, req, ans) ==
    \E dto \in {[req EXCEPT !.User = FlowUser(op, req)]} :
    \E b \in {buildSaveDashboardCommand(dto, FlowValidateAlerts(op),
                                        FlowValidateProvisioned(op),
                                        dashboards, provisioned, ans)} :
    \E next \in {IF b.err # NoErr THEN [pc |-> "done", err |-> b.err]
                 ELSE AfterBuild(op, dto.User)} :
        /\ call' = [call EXCEPT ![p] =
               [op |-> op, pc |-> next.pc, req |-> req,
                before |-> Before(req.Dashboard.Id),
                dto |-> [dto EXCEPT !.Dashboard = b.dash],
                cmd |-> b.cmd, buildErr |-> b.err, err |-> next.err,
                saved |-> None, result |-> None, trace |-> b.trace]]
        /\ UNCHANGED <<dashboards, provisioned, built, groups>>

SaveDashboard(p) ==
    /\ call[p].pc = "idle"
    /\ \E req \in Requests : \E ans \in FlowAnswers("SaveDashboard", req) :
           Enter(p, "SaveDashboard", req, ans)

ImportDashboard(p) ==
    /\ call[p].pc = "idle"
    /\ \E req \in Requests : \E ans \in FlowAnswers("ImportDashboard", req) :
           Enter(p, "ImportDashboard", req, ans)

SaveProvisionedDashboard(p) ==
    /\ call[p].pc = "idle"
    /\ \E req \in ProvisioningRequests :
       \E ans \in FlowAnswers("SaveProvisionedDashboard", req) :
           Enter(p, "SaveProvisionedDashboard", req, ans)

SaveFolderForProvisionedDashboards(p) ==
    /\ call[p].pc = "idle"
    /\ \E req \in ProvisioningRequests :
       \E ans \in FlowAnswers("SaveFolderForProvisionedDashboards", req) :
           Enter(p, "SaveFolderForProvisionedDashboards", req, ans)

\* the mirror block of SaveDashboard and of ImportDashboard
Mirror(p) ==
    /\ call[p].pc = "mirror"
    /\ \E ans \in MirrorAnswers :
        LET c == call[p]
            m == IF c.op = "SaveDashboard"
                 THEN SaveDashboardMirror(dashboards, c.dto, c.dto.Dashboard, ans)
                 ELSE ImportDashboardMirror(c.dto, c.dto.Dashboard, ans)
        IN  call' = [call EXCEPT ![p].trace = c.trace \o m.ops,
                                 ![p].err = IF m.err = "panic" THEN NoErr ELSE m.err,
                                 ![p].pc = IF m.err = "panic" THEN "panic"
                                           ELSE IF m.err # NoErr THEN "done"
                                           ELSE "persist"]
    /\ UNCHANGED <<dashboards, provisioned, built, groups>>

\* the handler of SaveDashboardCommand: the id and version the store gives
FreeIds == {i \in Ids : ~IsSome(dashboards[i])}
PersistId(data) ==
    IF data.id # 0 THEN data.id
    ELSE IF FreeIds # {} THEN CHOOSE i \in FreeIds : \A j \in FreeIds : i <= j
    ELSE 0
PersistVersion(id) ==
    IF id \in Ids /\ IsSome(dashboards[id]) THEN Val(dashboards[id]).Version + 1 ELSE 1

\* bus.Dispatch of the save command; the provisioned flow's compound command
\* writes the dashboard and its ProvisioningRecord together
\* faulty variant: a failed save command is followed by a mirror operation that takes the commit back
Persist_RevertsMirror(p) ==
    /\ call[p].pc = "persist"
    /\ LET c == call[p]
           cmd == Val(c.cmd)
           id == PersistId(cmd.Dashboard)
           version == PersistVersion(id)
           name == IF c.op = "SaveProvisionedDashboard"
                   THEN "SaveProvisionedDashboardCommand" ELSE "SaveDashboardCommand"
           saved == [Id |-> id, Version |-> version, FolderId |-> cmd.FolderId]
       IN  \/ /\ call' = [call EXCEPT
                    ![p].trace = @ \o << Ev(name, cmd.Dashboard.id, "ErrPersist") >>
                                   \o (IF Called(c.trace, "UpdateDashboard")
                                       THEN << MirrorEv("delete", cmd.Dashboard.id,
                                                        cmd.FolderId, "", NoErr) >>
                                       ELSE <<>>),
                    ![p].err = "ErrPersist",
                    ![p].pc = "done"]
              /\ UNCHANGED <<dashboards, provisioned>>
           \/ /\ id \in Ids
              /\ version <= MaxVersion
              /\ dashboards' = [dashboards EXCEPT
                                   ![id] = Some([Version |-> version, FolderId |-> cmd.FolderId])]
              /\ provisioned' = IF c.op = "SaveProvisionedDashboard"
                                THEN provisioned \cup {id} ELSE provisioned
              /\ call' = [call EXCEPT ![p].trace = Append(@, Ev(name, cmd.Dashboard.id, NoErr)),
                                      ![p].saved = Some(saved),
                                      ![p].result = IF c.op = "ImportDashboard"
                                                    THEN Some(saved) ELSE None,
                                      ![p].pc = IF c.op = "ImportDashboard"
                                                THEN "done" ELSE "alerts"]
    /\ UNCHANGED <<built, groups>>

\* faulty variant: a plain save command is refused when the dashboard has a record by then
Persist_RechecksRecord(p) ==
    /\ call[p].pc = "persist"
    /\ LET c == call[p]
           cmd == Val(c.cmd)
           id == PersistId(cmd.Dashboard)
           version == PersistVersion(id)
           name == IF c.op = "SaveProvisionedDashboard"
                   THEN "SaveProvisionedDashboardCommand" ELSE "SaveDashboardCommand"
           saved == [Id |-> id, Version |-> version, FolderId |-> cmd.FolderId]
       IN  \/ /\ call' = [call EXCEPT ![p].trace = Append(@, Ev(name, cmd.Dashboard.id, "ErrPersist")),
                                      ![p].err = "ErrPersist",
                                      ![p].pc = "done"]
              /\ UNCHANGED <<dashboards, provisioned>>
           \/ /\ id \in Ids
              /\ version <= MaxVersion
              /\ c.op = "SaveProvisionedDashboard" \/ id \notin provisioned
              /\ dashboards' = [dashboards EXCEPT
                                   ![id] = Some([Version |-> version, FolderId |-> cmd.FolderId])]
              /\ provisioned' = IF c.op = "SaveProvisionedDashboard"
                                THEN provisioned \cup {id} ELSE provisioned
              /\ call' = [call EXCEPT ![p].trace = Append(@, Ev(name, cmd.Dashboard.id, NoErr)),
                                      ![p].saved = Some(saved),
                                      ![p].result = IF c.op = "ImportDashboard"
                                                    THEN Some(saved) ELSE None,
                                      ![p].pc = IF c.op = "ImportDashboard"
                                                THEN "done" ELSE "alerts"]
    /\ UNCHANGED <<built, groups>>

Persist(p) ==
    /\ call[p].pc = "persist"
    /\ LET c == call[p]
           cmd == Val(c.cmd)
           id == PersistId(cmd.Dashboard)
           version == PersistVersion(id)
           name == IF c.op = "SaveProvisionedDashboard"
                   THEN "SaveProvisionedDashboardCommand" ELSE "SaveDashboardCommand"
           saved == [Id |-> id, Version |-> version, FolderId |-> cmd.FolderId]
       IN  \/ /\ call' = [call EXCEPT ![p].trace = Append(@, Ev(name, cmd.Dashboard.id, "ErrPersist")),
                                      ![p].err = "ErrPersist",
                                      ![p].pc = "done"]
              /\ UNCHANGED <<dashboards, provisioned>>
           \/ /\ id \in Ids
              /\ version <= MaxVersion
              /\ dashboards' = [dashboards EXCEPT
                                   ![id] = Some([Version |-> version, FolderId |-> cmd.FolderId])]
              /\ provisioned' = IF c.op = "SaveProvisionedDashboard"
                                THEN provisioned \cup {id} ELSE provisioned
              /\ call' = [call EXCEPT ![p].trace = Append(@, Ev(name, cmd.Dashboard.id, NoErr)),
                                      ![p].saved = Some(saved),
                                      ![p].result = IF c.op = "ImportDashboard"
                                                    THEN Some(saved) ELSE None,
                                      ![p].pc = IF c.op = "ImportDashboard"
                                                THEN "done" ELSE "alerts"]
    /\ UNCHANGED <<built, groups>>

\* faulty variant: a failed alert synchronisation is compensated by deleting the dashboard
UpdateAlerting_RollsBack(p) ==
    /\ call[p].pc = "alerts"
    /\ \E e \in {NoErr, "ErrAlertSync"} :
        /\ call' = [call EXCEPT ![p].trace = Append(@, Ev("UpdateDashboardAlerts",
                                                           Val(call[p].saved).Id, e)),
                                ![p].err = e,
                                ![p].result = IF e = NoErr THEN call[p].saved ELSE None,
                                ![p].pc = "done"]
        /\ dashboards' = IF e = NoErr THEN dashboards
                         ELSE [dashboards EXCEPT ![Val(call[p].saved).Id] = None]
    /\ UNCHANGED <<provisioned, built, groups>>

\* updateAlerting
UpdateAlerting(p) ==
    /\ call[p].pc = "alerts"
    /\ \E e \in {NoErr, "ErrAlertSync"} :
        call' = [call EXCEPT ![p].trace = Append(@, Ev("UpdateDashboardAlerts",
                                                        Val(call[p].saved).Id, e)),
                             ![p].err = e,
                             ![p].result = IF e = NoErr THEN call[p].saved ELSE None,
                             ![p].pc = "done"]
    /\ UNCHANGED <<dashboards, provisioned, built, groups>>

\* the call returns to its caller (or unwinds after a panic)
Return(p) ==
    /\ call[p].pc \in {"done", "panic"}
    /\ call' = [call EXCEPT ![p] = Idle]
    /\ UNCHANGED <<dashboards, provisioned, built, groups>>

\* ------------------------------------------------------------------------
\* The delete flows and UnprovisionDashboard
\* ------------------------------------------------------------------------
\* deleteDashboard up to its delete dispatch: the provisioning check made
\* (or not), and the error it returns there
\* faulty variant: the flag is ignored and the provisioning check is always made
deleteDashboardCheck_AlwaysValidates(prov, dashboardId, validateProvisionedDashboard, fault) ==
    LET q == ProvisionedDataById(prov, dashboardId, fault)
    IN  [trace |-> << Ev("GetProvisionedDashboardDataById", dashboardId,
                         IF q.err # NoErr THEN q.err
                         ELSE IF q.found THEN "found" ELSE Nil) >>,
         err |-> IF q.err # NoErr THEN "failed to check if dashboard is provisioned"
                 ELSE IF q.found THEN "ErrDashboardCannotDeleteProvisionedDashboard"
                 ELSE NoErr]

deleteDashboardCheck(prov, dashboardId, validateProvisionedDashboard, fault) ==
    IF validateProvisionedDashboard
    THEN LET q == ProvisionedDataById(prov, dashboardId, fault)
         IN  [trace |-> << Ev("GetProvisionedDashboardDataById", dashboardId,
                              IF q.err # NoErr THEN q.err
                              ELSE IF q.found THEN "found" ELSE Nil) >>,
              err |-> IF q.err # NoErr THEN "failed to check if dashboard is provisioned"
                      ELSE IF q.found THEN "ErrDashboardCannotDeleteProvisionedDashboard"
                      ELSE NoErr]
    ELSE [trace |-> <<>>, err |-> NoErr]

EnterDelete(p, op, dashboardId, orgId, validateProvisionedDashboard, fault) ==
    /\ LET chk == deleteDashboardCheck(provisioned, dashboardId,
                                       validateProvisionedDashboard, fault)
       IN  call' = [call EXCEPT ![p] =
               [op |-> op, pc |-> IF chk.err # NoErr THEN "done" ELSE "delete",
                id |-> dashboardId, orgId |-> orgId, before |-> Before(dashboardId),
                err |-> chk.err, trace |-> chk.trace]]
    /\ UNCHANGED <<dashboards, provisioned, built, groups>>

DeleteDashboard(p) ==
    /\ call[p].pc = "idle"
    /\ \E id \in Ids, orgId \in Orgs, fault \in BOOLEAN :
        EnterDelete(p, "DeleteDashboard", id, orgId, TRUE, fault)

DeleteProvisionedDashboard(p) ==
    /\ call[p].pc = "idle"
    /\ \E id \in Ids, orgId \in Orgs :
        EnterDelete(p, "DeleteProvisionedDashboard", id, orgId, FALSE, FALSE)

\* bus.Dispatch of DeleteDashboardCommand: the handler removes the dashboard
\* and, with it, its ProvisioningRecord
DispatchDelete(p) ==
    /\ call[p].pc = "delete"
    /\ LET id == call[p].id
       IN  \/ /\ call' = [call EXCEPT
                    ![p].trace = Append(@, Ev("DeleteDashboardCommand", id, "ErrDelete")),
                    ![p].err = "ErrDelete", ![p].pc = "done"]
              /\ UNCHANGED <<dashboards, provisioned>>
           \/ /\ ~IsSome(dashboards[id])
              /\ call' = [call EXCEPT
                    ![p].trace = Append(@, Ev("DeleteDashboardCommand", id, "ErrDashboardNotFound")),
                    ![p].err = "ErrDashboardNotFound", ![p].pc = "done"]
              /\ UNCHANGED <<dashboards, provisioned>>
           \/ /\ IsSome(dashboards[id])
              /\ dashboards' = [dashboards EXCEPT ![id] = None]
              /\ provisioned' = provisioned \ {id}
              /\ call' = [call EXCEPT
                    ![p].trace = Append(@, Ev("DeleteDashboardCommand", id, NoErr)),
                    ![p].err = NoErr, ![p].pc = "done"]
    /\ UNCHANGED <<built, groups>>

\* UnprovisionDashboard: one dispatch of UnprovisionDashboardCommand
\* faulty variant: the command drops every ProvisioningRecord
UnprovisionDashboard_DropsAllRecords(p) ==
    /\ call[p].pc = "idle"
    /\ \E id \in Ids, e \in {NoErr, "ErrUnprovision"} :
        /\ provisioned' = IF e = NoErr THEN {} ELSE provisioned
        /\ call' = [call EXCEPT ![p] =
               [op |-> "UnprovisionDashboard", pc |-> "done", id |-> id, orgId |-> 0,
                before |-> Before(id),
                err |-> e, trace |-> << Ev("UnprovisionDashboardCommand", id, e) >>]]
    /\ UNCHANGED <<dashboards, built, groups>>

UnprovisionDashboard(p) ==
    /\ call[p].pc = "idle"
    /\ \E id \in Ids, e \in {NoErr, "ErrUnprovision"} :
        /\ provisioned' = IF e = NoErr THEN provisioned \ {id} ELSE provisioned
        /\ call' = [call EXCEPT ![p] =
               [op |-> "UnprovisionDashboard", pc |-> "done", id |-> id, orgId |-> 0,
                before |-> Before(id),
                err |-> e, trace |-> << Ev("UnprovisionDashboardCommand", id, e) >>]]
    /\ UNCHANGED <<dashboards, built, groups>>

\* ------------------------------------------------------------------------
\* Specification of the service: one caller at a time
\* ------------------------------------------------------------------------
Init ==
    /\ dashboards = [i \in StoreIds |->
                         IF i = OtherId THEN Some([Version |-> 1, FolderId |-> 0]) ELSE None]
    /\ provisioned = {OtherId}
    /\ call = [p \in Procs |-> Idle]
    /\ built = Off
    /\ groups = Off

Step(p) ==
    \/ SaveDashboard(p)
    \/ ImportDashboard(p)
    \/ SaveProvisionedDashboard(p)
    \/ SaveFolderForProvisionedDashboards(p)
    \/ Mirror(p)
    \/ Persist(p)
    \/ UpdateAlerting(p)
    \/ DeleteDashboard(p)
    \/ DeleteProvisionedDashboard(p)
    \/ DispatchDelete(p)
    \/ UnprovisionDashboard(p)
    \/ Return(p)

Next == Step(1)

Spec == Init /\ [][Next]_vars

\* ------------------------------------------------------------------------
\* Specification of two concurrent callers: caller 1 makes plain saves and
\* deletes, caller 2 provisioned saves, of the same dashboards.  The service
\* holds no lock: the steps of the two calls interleave freely.
\* ------------------------------------------------------------------------
ConcurrentRequests ==
    {SaveDashboardDTO(SignedInUser(1, "", ""), TRUE,
                      Dashboard(id, <<"u">>, <<"a">>, 0, FALSE, 0, 1)) : id \in Ids}

ConcurrentSaveDashboard(p) ==
    /\ call[p].pc = "idle"
    /\ \E req \in ConcurrentRequests : \E ans \in FlowAnswers("SaveDashboard", req) :
           Enter(p, "SaveDashboard", req, ans)

ConcurrentSaveProvisionedDashboard(p) ==
    /\ call[p].pc = "idle"
    /\ \E req \in ConcurrentRequests :
       \E ans \in FlowAnswers("SaveProvisionedDashboard", req) :
           Enter(p, "SaveProvisionedDashboard", req, ans)

NextConcurrent ==
    \/ ConcurrentSaveDashboard(1)
    \/ DeleteDashboard(1)
    \/ Persist(1)
    \/ UpdateAlerting(1)
    \/ DispatchDelete(1)
    \/ Return(1)
    \/ ConcurrentSaveProvisionedDashboard(2)
    \/ Persist(2)
    \/ UpdateAlerting(2)
    \/ Return(2)

SpecConcurrent == Init /\ [][NextConcurrent]_vars

\* ------------------------------------------------------------------------
\* Specification of buildSaveDashboardCommand alone: the request, the flags
\* and the store are drawn, the build is applied once
\* ------------------------------------------------------------------------
Titles ==
    {<<>>, <<" ">>, <<"\t", " ">>, <<"a">>, <<" ", "a", "\t">>,
     RootFolderName, <<" ", "g", "E", "n", "e", "r", "A", "l">>}

Uids ==
    {<<>>, <<"u">>, <<" ", "u", " ">>, <<"u", "!">>, <<"u", " ", "u">>,
     Rep("u", UidMaxLen), <<" ">> \o Rep("u", UidMaxLen) \o <<"\t">>,
     Rep("u", UidMaxLen + 1), Rep("!", UidMaxLen + 1)}

\* requests that differ in the fields the command copies: the request's org
\* (which need not be the user's), message and time, the dashboard's plugin
CommandRequests ==
    {[SaveDashboardDTO(SignedInUser(1, "", ""), ow,
                       [Dashboard(0, <<" ", "u">>, <<"a", " ">>, f, isF, 0, 1)
                            EXCEPT !.PluginId = plugin])
          EXCEPT !.OrgId = org, !.Message = msg, !.UpdatedAt = at] :
        ow \in BOOLEAN, f \in Folders, isF \in BOOLEAN, plugin \in {"", "plugin"},
        org \in Orgs, msg \in {"", "msg"}, at \in {0, 7}}

BuildRequests ==
    {SaveDashboardDTO(SignedInUser(1, "", ""), ow, Dashboard(id, uid, t, f, isF, v, 1)) :
        ow \in BOOLEAN, id \in {0, 1}, uid \in Uids, t \in Titles, f \in Folders,
        isF \in BOOLEAN, v \in {0, 1, 2}}
    \cup CommandRequests

\* stores of the build: dashboard 1 absent, or stored at version 1 in either folder
BuildStores ==
    {[i \in Ids |-> None]}
        \cup {[i \in Ids |-> IF i = 1 THEN Some([Version |-> 1, FolderId |-> f]) ELSE None] :
                 f \in Folders}

InitBuild ==
    /\ dashboards \in BuildStores
    /\ provisioned \in {{}, {i \in {1} : IsSome(dashboards[i])}}
    /\ call = [p \in Procs |-> Idle]
    /\ built \in [pc : {"ready"}, dto : BuildRequests,
                  validateAlerts : BOOLEAN, validateProvisionedDashboard : BOOLEAN]
    /\ groups = Off

BuildCommand ==
    /\ built.pc = "ready"
    /\ \E ans \in AnswersFor(built.dto, built.validateAlerts,
                            built.validateProvisionedDashboard) :
        built' = [pc |-> "built", dto |-> built.dto,
                  validateAlerts |-> built.validateAlerts,
                  validateProvisionedDashboard |-> built.validateProvisionedDashboard,
                  out |-> buildSaveDashboardCommand(
                              built.dto, built.validateAlerts,
                              built.validateProvisionedDashboard,
                              dashboards, provisioned, ans)]
    /\ UNCHANGED <<dashboards, provisioned, call, groups>>

NextBuild == BuildCommand

SpecBuild == InitBuild /\ [][NextBuild]_vars

\* ------------------------------------------------------------------------
\* SocialGitlab: group membership and the paginated group listing
\* ------------------------------------------------------------------------
\* faulty variant: group names are compared ignoring case
RECURSIVE HasGroup_IgnoresCase(_, _)
HasGroup_IgnoresCase(gs, allowedGroup) ==
    IF gs = <<>> THEN FALSE
    ELSE IF ToLower(Head(gs)) = ToLower(allowedGroup) THEN TRUE
    ELSE HasGroup_IgnoresCase(Tail(gs), allowedGroup)

\* the inner loop of IsGroupMember: some group equals allowedGroup
RECURSIVE HasGroup(_, _)
HasGroup(gs, allowedGroup) ==
    IF gs = <<>> THEN FALSE
    ELSE IF Head(gs) = allowedGroup THEN TRUE
    ELSE HasGroup(Tail(gs), allowedGroup)

RECURSIVE AnyAllowed(_, _)
AnyAllowed(allowedGroups, gs) ==
    IF allowedGroups = <<>> THEN FALSE
    ELSE IF HasGroup(gs, Head(allowedGroups)) THEN TRUE
    ELSE AnyAllowed(Tail(allowedGroups), gs)

\* faulty variant: a user without groups passes every allow-list
IsGroupMember_EmptyGroupsPass(allowedGroups, gs) ==
    IF Len(allowedGroups) = 0 \/ Len(gs) = 0 THEN TRUE ELSE AnyAllowed(allowedGroups, gs)

IsGroupMember(allowedGroups, gs) ==
    IF Len(allowedGroups) = 0 THEN TRUE ELSE AnyAllowed(allowedGroups, gs)

\* the first <url>; rel="next" of a Link header, 0 (the empty url) without one
RECURSIVE NextLink(_)
NextLink(link) ==
    IF link = <<>> THEN 0
    ELSE IF Head(link).rel = "next" THEN Head(link).url
    ELSE NextLink(Tail(link))

\* faulty variant: an empty page is returned as the nil slice
GetGroupsPage_EmptyIsNil(server, url) ==
    IF url = 0 THEN [page |-> None, next |-> 0, fetched |-> FALSE]
    ELSE LET response == server[url]
         IN  IF response.kind # "ok" \/ response.body = <<>>
             THEN [page |-> None, next |-> 0, fetched |-> TRUE]
             ELSE [page |-> Some(response.body),
                   next |-> IF IsSome(response.link) THEN NextLink(Val(response.link)) ELSE 0,
                   fetched |-> TRUE]

\* GetGroupsPage: the page (None for the nil slice) and the next url; fetched
\* tells whether an HTTP request was made
\* faulty variant: the empty url is requested as any other, and the request fails
GetGroupsPage_FetchesEmptyUrl(server, url) ==
    IF url = 0 THEN [page |-> None, next |-> 0, fetched |-> TRUE]
    ELSE LET response == server[url]
         IN  IF response.kind # "ok" THEN [page |-> None, next |-> 0, fetched |-> TRUE]
             ELSE [page |-> Some(response.body),
                   next |-> IF IsSome(response.link) THEN NextLink(Val(response.link)) ELSE 0,
                   fetched |-> TRUE]

GetGroupsPage(server, url) ==
    IF url = 0 THEN [page |-> None, next |-> 0, fetched |-> FALSE]
    ELSE LET response == server[url]
         IN  IF response.kind # "ok" THEN [page |-> None, next |-> 0, fetched |-> TRUE]
             ELSE [page |-> Some(response.body),
                   next |-> IF IsSome(response.link) THEN NextLink(Val(response.link)) ELSE 0,
                   fetched |-> TRUE]

\* responses of the groups endpoint at url i: a transport error, an unparsable
\* body, or a body of full paths with no Link header, a Link header without
\* next, a next link to the following url, or a next link back to the first url
Bodies == {<<>>, <<"a">>, <<"b", "a">>}
Links(i) ==
    {None, Some(<< [url |-> 1, rel |-> "first"] >>),
     Some(<< [url |-> 1, rel |-> "first"], [url |-> 1, rel |-> "next"] >>)}
        \cup (IF i < MaxPages
              THEN {Some(<< [url |-> i, rel |-> "prev"], [url |-> i + 1, rel |-> "next"] >>)}
              ELSE {})
Responses(i) ==
    {[kind |-> "httperr", body |-> <<>>, link |-> None],
     [kind |-> "badjson", body |-> <<>>, link |-> None]}
        \cup {[kind |-> "ok", body |-> b, link |-> l] : b \in Bodies, l \in Links(i)}

Servers == {sv \in [1..MaxPages -> UNION {Responses(i) : i \in 1..MaxPages}] :
               \A i \in 1..MaxPages : sv[i] \in Responses(i)}

AllowLists == {<<>>, <<"a">>, <<"A">>, <<"c">>, <<"c", "b">>}

InitSocial ==
    /\ dashboards = [i \in Ids |-> None]
    /\ provisioned = {}
    /\ call = [p \in Procs |-> Idle]
    /\ built = Off
    /\ groups \in [pc : {"ready"}, server : Servers]

\* GetGroups up to its loop: the first url is apiUrl + "/groups"
GetGroups ==
    /\ groups.pc = "ready"
    /\ groups' = [pc |-> "page", server |-> groups.server, url |-> 1,
                  groups |-> <<>>, fetched |-> <<>>]
    /\ UNCHANGED <<dashboards, provisioned, call, built>>

\* one turn of the loop: GetGroupsPage, then the test page != nil
GetGroupsLoop ==
    /\ groups.pc = "page"
    /\ LET r == GetGroupsPage(groups.server, groups.url)
           fetched == IF r.fetched THEN Append(groups.fetched, groups.url)
                      ELSE groups.fetched
       IN  /\ Len(fetched) <= MaxFetches
           /\ groups' = IF IsSome(r.page)
                        THEN [groups EXCEPT !.groups = @ \o Val(r.page), !.url = r.next,
                                            !.fetched = fetched]
                        ELSE [groups EXCEPT !.pc = "returned", !.fetched = fetched]
    /\ UNCHANGED <<dashboards, provisioned, call, built>>

\* IsGroupMember applied to the groups returned, under a drawn allow-list
CheckGroupMember ==
    /\ groups.pc = "returned"
    /\ \E allowedGroups \in AllowLists :
        groups' = [pc |-> "checked", server |-> groups.server, groups |-> groups.groups,
                   fetched |-> groups.fetched, allowedGroups |-> allowedGroups,
                   member |-> IsGroupMember(allowedGroups, groups.groups)]
    /\ UNCHANGED <<dashboards, provisioned, call, built>>

\* responses of the user endpoint: a transport error, an unparsable body, or
\* an account in some state
UserResponses ==
    {[kind |-> "httperr", State |-> ""], [kind |-> "badjson", State |-> ""],
     [kind |-> "ok", State |-> "active"], [kind |-> "ok", State |-> "blocked"],
     [kind |-> "ok", State |-> ""]}

\* UserInfo up to its call of GetGroups: the error it returns there
\* faulty variant: the account's state is not looked at
UserInfoUser_AcceptsAnyState(user) ==
    IF user.kind # "ok" THEN "Error getting user info" ELSE NoErr

UserInfoUser(user) ==
    IF user.kind # "ok" THEN "Error getting user info"
    ELSE IF user.State # "active" THEN "User is inactive"
    ELSE NoErr

\* UserInfo: the user is fetched; with an error the call returns, otherwise
\* it enters GetGroups
UserInfo ==
    /\ groups.pc = "ready"
    /\ \E user \in UserResponses :
        groups' = IF UserInfoUser(user) # NoErr
                  THEN [pc |-> "userinfo", server |-> groups.server, user |-> user,
                        groups |-> <<>>, fetched |-> <<>>, allowedGroups |-> <<>>,
                        err |-> UserInfoUser(user), info |-> None]
                  ELSE [pc |-> "page", server |-> groups.server, url |-> 1,
                        groups |-> <<>>, fetched |-> <<>>, user |-> user]
    /\ UNCHANGED <<dashboards, provisioned, call, built>>

\* UserInfo after GetGroups: IsGroupMember under the connector's allow-list
\* (configuration, drawn here where it is first read)
UserInfoReturn ==
    /\ groups.pc = "returned"
    /\ "user" \in DOMAIN groups
    /\ \E allowedGroups \in AllowLists :
        LET member == IsGroupMember(allowedGroups, groups.groups)
        IN  groups' = [pc |-> "userinfo", server |-> groups.server, user |-> groups.user,
                       groups |-> groups.groups, fetched |-> groups.fetched,
                       allowedGroups |-> allowedGroups,
                       err |-> IF member THEN NoErr ELSE "ErrMissingGroupMembership",
                       info |-> IF member THEN Some([Groups |-> groups.groups]) ELSE None]
    /\ UNCHANGED <<dashboards, provisioned, call, built>>

NextSocial ==
    \/ GetGroups
    \/ GetGroupsLoop
    \/ CheckGroupMember
    \/ UserInfo
    \/ UserInfoReturn

SpecSocial == InitSocial /\ [][NextSocial]_vars

\* the loop of GetGroups is sequential code: while a turn is possible, one is taken
SpecSocialLive == SpecSocial /\ WF_vars(GetGroupsLoop)

\* ------------------------------------------------------------------------
\* Properties
\* ------------------------------------------------------------------------
FailedMirror(trace) ==
    \E i \in 1..Len(trace) : trace[i].c = "UpdateDashboard" /\ trace[i].r = "ErrDashboardGitlabSync"

Persisted(trace) ==
    Called(trace, "SaveDashboardCommand") \/ Called(trace, "SaveProvisionedDashboardCommand")

\* C1: in SaveDashboard by a user with a token, an error of any mirror
\* operation (the delete of a folder move included) ends the call with that
\* error and the save command is never dispatched.
C1_AnyMirrorErrorAborts ==
    \A p \in Procs :
        (call[p].op = "SaveDashboard" /\ FailedMirror(call[p].trace))
            => /\ call[p].pc = "done"
               /\ call[p].err = "ErrDashboardGitlabSync"
               /\ ~Persisted(call[p].trace)

\* the build of call c met no failing check other than the provisioning lookup
OtherChecksPass(c) ==
    /\ LocalChecks(c.dto.Dashboard) = NoErr
    /\ \A i \in 1..Len(c.trace) :
          c.trace[i].c \in {"ValidateDashboardAlerts", "ValidateDashboardBeforeSave", "CanSave"}
              => c.trace[i].r \in {NoErr, "yes"}

\* C2: when the dashboard has a ProvisioningRecord and every other build check
\* passes, SaveDashboard and ImportDashboard (validateProvisioned = true) fail
\* with ErrDashboardCannotSaveProvisionedDashboard and dispatch nothing, while
\* SaveProvisionedDashboard and SaveFolderForProvisionedDashboards
\* (validateProvisioned = false) make no provisioning lookup and their build
\* succeeds.
C2_ProvisionedBlocksOnlyValidatedSaves ==
    \A p \in Procs :
        LET c == call[p] IN
        (c.op \in SaveFlows /\ c.before.record /\ OtherChecksPass(c))
            => IF c.op \in {"SaveDashboard", "ImportDashboard"}
               THEN \/ /\ c.pc = "done"
                       /\ c.err = "ErrDashboardCannotSaveProvisionedDashboard"
                       /\ ~IsSome(c.cmd) /\ ~IsSome(c.result)
                       /\ ~Persisted(c.trace) /\ ~Called(c.trace, "UpdateDashboard")
                       /\ dashboards[c.dto.Dashboard.Id] = c.before.stored
                    \/ /\ c.pc = "done"
                       /\ c.err = "ErrProvisioningQuery"
                       /\ ~Persisted(c.trace)
               ELSE /\ ~Called(c.trace, "GetProvisionedDashboardDataById")
                    /\ c.buildErr = NoErr
                    /\ IsSome(c.cmd)
                    /\ c.pc # "done" \/ Persisted(c.trace)

\* C2 witness: a provisioned flow has persisted a dashboard that already had
\* a ProvisioningRecord when the flow was entered.
C2_Witness ==
    \E p \in Procs :
        /\ call[p].op = "SaveProvisionedDashboard"
        /\ call[p].before.record
        /\ call[p].pc = "done"
        /\ IsSome(call[p].result)

\* C2: a validated save refused because of the provisioning record is reachable
C2_RefusedReached ==
    \E p \in Procs :
        /\ call[p].op \in {"SaveDashboard", "ImportDashboard"}
        /\ call[p].before.record
        /\ call[p].err = "ErrDashboardCannotSaveProvisionedDashboard"

\* C3: DeleteDashboard on a dashboard with a ProvisioningRecord returns
\* ErrDashboardCannotDeleteProvisionedDashboard and dispatches no delete
\* (dashboard and record stay); a failed provisioning lookup returns an error
\* and dispatches no delete either.  DeleteProvisionedDashboard makes no
\* provisioning lookup and dispatches the delete; on a stored dashboard the
\* delete succeeds unless the store itself fails, and after a successful
\* delete the id has neither dashboard nor ProvisioningRecord.
C3_DeleteProvisioned ==
    \A p \in Procs :
        LET c == call[p] IN
        /\ (c.op = "DeleteDashboard" /\ c.trace[1].r = "found")
               => /\ c.before.record
                  /\ c.pc = "done"
                  /\ c.err = "ErrDashboardCannotDeleteProvisionedDashboard"
                  /\ ~Called(c.trace, "DeleteDashboardCommand")
                  /\ dashboards[c.id] = c.before.stored
                  /\ c.id \in provisioned
        /\ (c.op = "DeleteDashboard" /\ c.before.record /\ c.trace[1].r # "found")
               => /\ c.trace[1].r = "ErrProvisioningQuery"
                  /\ c.pc = "done"
                  /\ c.err = "failed to check if dashboard is provisioned"
                  /\ ~Called(c.trace, "DeleteDashboardCommand")
                  /\ dashboards[c.id] = c.before.stored
                  /\ c.id \in provisioned
        /\ c.op = "DeleteProvisionedDashboard"
               => /\ ~Called(c.trace, "GetProvisionedDashboardDataById")
                  /\ c.pc = "delete" \/ (c.pc = "done" /\ Called(c.trace, "DeleteDashboardCommand"))
                  /\ (c.pc = "done" /\ IsSome(c.before.stored))
                         => c.err \in {NoErr, "ErrDelete"}
                  /\ (c.pc = "done" /\ c.err = NoErr)
                         => (c.id \notin provisioned /\ ~IsSome(dashboards[c.id]))

\* C3 witness: DeleteProvisionedDashboard has deleted a dashboard that had a
\* ProvisioningRecord.
C3_Witness ==
    \E p \in Procs :
        /\ call[p].op = "DeleteProvisionedDashboard"
        /\ call[p].before.record
        /\ call[p].pc = "done"
        /\ call[p].err = NoErr
        /\ call[p].id \notin provisioned

\* C4 as claimed: ImportDashboard by a user with an empty token ends with
\* ErrDashboardGitlabSync for every input dashboard, and dispatches neither
\* the save command nor a mirror operation.
C4_ImportWithoutTokenAlwaysSyncRequired ==
    \A p \in Procs :
        (call[p].op = "ImportDashboard" /\ call[p].req.User.Token = "")
            => /\ call[p].pc = "done"
               /\ call[p].err = "ErrDashboardGitlabSync"
               /\ ~Persisted(call[p].trace)
               /\ ~Called(call[p].trace, "UpdateDashboard")

BuildErrors ==
    {"ErrDashboardTitleEmpty", "ErrDashboardFolderCannotHaveParent",
     "ErrDashboardFolderNameExists", "ErrDashboardInvalidUid", "ErrDashboardUidToLong",
     "ErrAlertValidation", "ErrDashboardVersionMismatch", "ErrGuardian",
     "ErrDashboardUpdateAccessDenied", "ErrProvisioningQuery",
     "ErrDashboardCannotSaveProvisionedDashboard"}

\* C4 as amended: ImportDashboard by a user with an empty token always fails
\* and dispatches neither the save command nor a mirror operation; the error
\* is ErrDashboardGitlabSync when the build returned a command, and the
\* build's own error otherwise.
C4_ImportWithoutTokenFails ==
    \A p \in Procs :
        LET c == call[p] IN
        (c.op = "ImportDashboard" /\ c.req.User.Token = "")
            => /\ c.pc = "done"
               /\ c.err # NoErr
               /\ ~IsSome(c.result)
               /\ ~Persisted(c.trace)
               /\ ~Called(c.trace, "UpdateDashboard")
               /\ c.req.Dashboard.Id \in Ids
                      => dashboards[c.req.Dashboard.Id] = c.before.stored
               /\ IF IsSome(c.cmd) THEN c.err = "ErrDashboardGitlabSync"
                  ELSE c.err \in BuildErrors

\* C4 witness: an import without token whose build returned a command has
\* ended with ErrDashboardGitlabSync.
C4_Witness ==
    \E p \in Procs :
        /\ call[p].op = "ImportDashboard"
        /\ call[p].req.User.Token = ""
        /\ IsSome(call[p].cmd)
        /\ call[p].pc = "done"
        /\ call[p].err = "ErrDashboardGitlabSync"

NoOuterSpace(s) == s = <<>> \/ (~IsSpace(s[1]) /\ ~IsSpace(s[Len(s)]))

AllSpace(s) == \A i \in 1..Len(s) : IsSpace(s[i])

\* t is s without its leading and trailing white space
TrimmedFrom(s, t) ==
    /\ NoOuterSpace(t)
    /\ \E a \in 0..Len(s) :
          /\ a + Len(t) <= Len(s)
          /\ SubSeq(s, a + 1, a + Len(t)) = t
          /\ \A i \in 1..Len(s) : (i <= a \/ i > a + Len(t)) => IsSpace(s[i])

\* C5: when buildSaveDashboardCommand returns a command, the dashboard's
\* Title is the request's title trimmed, is not empty and equals the "title"
\* entry of the payload the command carries; its Uid is the request's uid
\* trimmed, has at most 40 characters, all of the short-id alphabet.  A build
\* of a title of white space only returns ErrDashboardTitleEmpty without
\* having called any collaborator.
C5_BuiltDashboardNormalized ==
    built.pc = "built" =>
        LET o == built.out
            d == o.dash
            in == built.dto.Dashboard
        IN  /\ IsSome(o.cmd) <=> o.err = NoErr
            /\ IsSome(o.cmd) =>
                  /\ d.Title # <<>>
                  /\ TrimmedFrom(in.Title, d.Title)
                  /\ Val(o.cmd).Dashboard.title = d.Title
                  /\ TrimmedFrom(in.Uid, d.Uid)
                  /\ Val(o.cmd).Dashboard.uid = d.Uid
                  /\ Len(d.Uid) <= 40
                  /\ \A i \in 1..Len(d.Uid) : d.Uid[i] \in UidChars
            /\ AllSpace(in.Title) =>
                  /\ o.err = "ErrDashboardTitleEmpty"
                  /\ o.trace = <<>>

\* C5 witness: a command was built from a padded title and from a padded uid
\* of 40 characters.
C5_Witness ==
    /\ built.pc = "built"
    /\ IsSome(built.out.cmd)
    /\ built.dto.Dashboard.Title # built.out.dash.Title
    /\ Len(built.dto.Dashboard.Uid) > 40
    /\ Len(built.out.dash.Uid) = 40

\* C6: a build of a folder (IsFolder) with FolderId > 0 returns no command,
\* whatever the other fields, the flags and the collaborators' answers; with
\* a title that is not empty after trimming the error is
\* ErrDashboardFolderCannotHaveParent, and no collaborator was called.
C6_FolderWithParentNeverBuilds ==
    (built.pc = "built" /\ built.dto.Dashboard.IsFolder /\ built.dto.Dashboard.FolderId > 0)
        => /\ ~IsSome(built.out.cmd)
           /\ built.out.err # NoErr
           /\ ~AllSpace(built.dto.Dashboard.Title)
                  => /\ built.out.err = "ErrDashboardFolderCannotHaveParent"
                     /\ built.out.trace = <<>>

\* C6 witness: a folder with a parent and an otherwise valid title and uid
\* was refused.
C6_Witness ==
    /\ built.pc = "built"
    /\ built.dto.Dashboard.IsFolder
    /\ built.dto.Dashboard.FolderId > 0
    /\ built.dto.Dashboard.Title = <<"a">>
    /\ built.dto.Dashboard.Uid = <<"u">>
    /\ built.out.err = "ErrDashboardFolderCannotHaveParent"

\* the stored dashboard of the call's id, when entered, had another Version
StoredVersionDiffers(c) ==
    /\ IsSome(c.before.stored)
    /\ Val(c.before.stored).Version # c.req.Dashboard.Version

NoFailedCall(trace) ==
    \A i \in 1..Len(trace) :
        trace[i].c # "GetDashboardQuery" => trace[i].r \in {NoErr, "yes"}

\* C7: a save with overwrite = false of a dashboard stored under the same id
\* with another Version fails and dispatches neither a mirror operation nor
\* the save command; once its pre-save validation is reached, the validation
\* reports the conflict, that error is the one returned, and no permission
\* check follows.  The same save with overwrite = true passes the pre-save
\* validation, and when no other check or collaborator fails (and an import
\* has its token) it ends with the dashboard persisted and returned.
C7_VersionConflictUnlessOverwrite ==
    \A p \in Procs :
        LET c == call[p] IN
        (c.op \in SaveFlows /\ StoredVersionDiffers(c))
            => IF ~c.req.Overwrite
               THEN /\ c.pc = "done"
                    /\ c.err # NoErr
                    /\ ~IsSome(c.cmd)
                    /\ ~Persisted(c.trace)
                    /\ ~Called(c.trace, "UpdateDashboard")
                    /\ ~Called(c.trace, "CanSave")
                    /\ dashboards[c.req.Dashboard.Id] = c.before.stored
                    /\ Called(c.trace, "ValidateDashboardBeforeSave")
                           => /\ c.trace[Len(c.trace)].c = "ValidateDashboardBeforeSave"
                              /\ c.trace[Len(c.trace)].r = "ErrDashboardVersionMismatch"
                              /\ c.err = "ErrDashboardVersionMismatch"
                    /\ (LocalChecks(c.dto.Dashboard) = NoErr
                           /\ \A i \in Calls(c.trace, "ValidateDashboardAlerts") :
                                  c.trace[i].r = NoErr)
                           => Called(c.trace, "ValidateDashboardBeforeSave")
               ELSE /\ \A i \in Calls(c.trace, "ValidateDashboardBeforeSave") :
                           c.trace[i].r = NoErr
                    /\ (c.pc = "done" /\ LocalChecks(c.dto.Dashboard) = NoErr
                                      /\ NoFailedCall(c.trace)
                                      /\ ~(c.op = "ImportDashboard" /\ c.dto.User.Token = ""))
                           => /\ c.err = NoErr
                              /\ Persisted(c.trace)
                              /\ IsSome(c.result)
                              /\ dashboards[Val(c.result).Id] =
                                     Some([Version |-> Val(c.result).Version,
                                           FolderId |-> c.dto.Dashboard.FolderId])

\* C7 witness: SaveDashboard without overwrite, against a stored dashboard of
\* another version, has ended with the conflict error.
C7_Witness ==
    \E p \in Procs :
        /\ call[p].op = "SaveDashboard"
        /\ ~call[p].req.Overwrite
        /\ StoredVersionDiffers(call[p])
        /\ call[p].pc = "done"
        /\ call[p].err = "ErrDashboardVersionMismatch"

\* the overwrite half of C7 is reached as well
C7_OverwriteReached ==
    \E p \in Procs :
        /\ call[p].op = "SaveDashboard"
        /\ call[p].req.Overwrite
        /\ StoredVersionDiffers(call[p])
        /\ call[p].pc = "done"
        /\ IsSome(call[p].result)

\* C8: when the save command of SaveDashboard, SaveProvisionedDashboard or
\* SaveFolderForProvisionedDashboards succeeded and the alert synchronisation
\* after it failed, the call returns the alert error and no dashboard, no
\* delete is dispatched and the dashboard written stays in the store.
C8_AlertFailureKeepsDashboard ==
    \A p \in Procs :
        LET c == call[p] IN
        (c.op \in SaveFlows /\ c.pc = "done"
            /\ \E i \in Calls(c.trace, "UpdateDashboardAlerts") : c.trace[i].r # NoErr)
            => /\ c.op # "ImportDashboard"
               /\ c.err = "ErrAlertSync"
               /\ ~IsSome(c.result)
               /\ IsSome(c.saved)
               /\ ~Called(c.trace, "DeleteDashboardCommand")
               /\ dashboards[Val(c.saved).Id] =
                      Some([Version |-> Val(c.saved).Version,
                            FolderId |-> c.dto.Dashboard.FolderId])
               /\ c.op = "SaveProvisionedDashboard" => Val(c.saved).Id \in provisioned

\* C8 witness: a save was persisted and its alert synchronisation failed.
C8_Witness ==
    \E p \in Procs :
        /\ call[p].op = "SaveDashboard"
        /\ call[p].pc = "done"
        /\ call[p].err = "ErrAlertSync"
        /\ IsSome(call[p].saved)
        /\ IsSome(dashboards[Val(call[p].saved).Id])

\* C9: IsGroupMember is true for every list of groups, the empty one
\* included, when the allow-list is empty; with a non-empty allow-list it is
\* true exactly when some group is equal, character for character, to some
\* allowed group.
C9_IsGroupMember ==
    groups.pc = "checked" =>
        LET allowed == {groups.allowedGroups[i] : i \in 1..Len(groups.allowedGroups)}
            mine == {groups.groups[i] : i \in 1..Len(groups.groups)}
        IN  groups.member <=> (allowed = {} \/ allowed \cap mine # {})

\* C9 witness: a non-empty allow-list and a non-empty list of groups without
\* a common element (the groups differ from an allowed one by case only)
\* were rejected.
C9_Witness ==
    /\ groups.pc = "checked"
    /\ groups.allowedGroups = <<"A">>
    /\ groups.groups # <<>>
    /\ groups.groups[1] = "a"
    /\ ~groups.member

\* C9: the empty allow-list with the empty list of groups is reached as well
C9_EmptyReached ==
    /\ groups.pc = "checked"
    /\ groups.allowedGroups = <<>>
    /\ groups.groups = <<>>
    /\ groups.member

\* the url a response links to as next: that of the first rel="next" entry
LinkedNext(response) ==
    IF IsSome(response.link) /\ \E i \in 1..Len(Val(response.link)) : Val(response.link)[i].rel = "next"
    THEN LET k == CHOOSE i \in 1..Len(Val(response.link)) :
                     /\ Val(response.link)[i].rel = "next"
                     /\ \A j \in 1..(i - 1) : Val(response.link)[j].rel # "next"
         IN  Val(response.link)[k].url
    ELSE 0

\* the bodies of the pages at the urls us, concatenated in order
RECURSIVE Concat(_, _)
Concat(server, us) ==
    IF us = <<>> THEN <<>>
    ELSE (IF server[Head(us)].kind = "ok" THEN server[Head(us)].body ELSE <<>>)
             \o Concat(server, Tail(us))

\* C10: GetGroups fetches the first url and then follows the next links; it
\* returns at the first page that cannot be fetched or parsed, or after the
\* first page without next link, and what it returns is the concatenation
\* of the full paths of the pages fetched and parsed, in page order and then
\* in-page order, duplicates and the pages after an empty page included.
C10_GetGroupsConcatenatesPages ==
    groups.pc = "returned" =>
        LET us == groups.fetched
            sv == groups.server
            n == Len(us)
        IN  /\ n >= 1
            /\ us[1] = 1
            /\ \A i \in 1..(n - 1) : sv[us[i]].kind = "ok" /\ LinkedNext(sv[us[i]]) = us[i + 1]
            /\ sv[us[n]].kind # "ok" \/ LinkedNext(sv[us[n]]) = 0
            /\ groups.groups = Concat(sv, us)

\* C10 witness: three pages linked by next links, the second one empty and
\* the first and third sharing a full path, were returned whole.
C10_Witness ==
    /\ groups.pc = "returned"
    /\ groups.fetched = <<1, 2, 3>>
    /\ groups.server[2].kind = "ok" /\ groups.server[2].body = <<>>
    /\ groups.server[3].kind = "ok"
    /\ groups.groups = <<"a", "b", "a">>

\* C10: a chain that ends in a page that cannot be parsed is reached as well
C10_FailedPageReached ==
    /\ groups.pc = "returned"
    /\ groups.fetched = <<1, 2>>
    /\ groups.server[2].kind = "badjson"
    /\ groups.groups = <<"b", "a">>

\* the state part of C11
C11_ProvisionedSaveState ==
    \A p \in Procs :
        LET c == call[p] IN
        c.op = "SaveProvisionedDashboard"
            => /\ c.dto.User.UserId = 0
               /\ c.dto.User.OrgRole = "Admin"
               /\ c.dto.User.OrgId = c.req.OrgId
               /\ c.dto.User.Token = ""
               /\ IsSome(c.cmd) => Val(c.cmd).UserId = 0
               /\ ~Called(c.trace, "UpdateDashboard")
               /\ ~Called(c.trace, "SaveDashboardCommand")
               /\ Cardinality(Calls(c.trace, "SaveProvisionedDashboardCommand")) <= 1
               /\ \A i \in Calls(c.trace, "CanSave") :
                      \A j \in Calls(c.trace, "SaveProvisionedDashboardCommand") : i < j
               /\ IF \E i \in Calls(c.trace, "SaveProvisionedDashboardCommand") :
                         c.trace[i].r = NoErr
                  THEN /\ IsSome(c.saved)
                       /\ IsSome(dashboards[Val(c.saved).Id])
                       /\ Val(c.saved).Id \in provisioned
                  ELSE c.req.Dashboard.Id \in Ids
                           => /\ dashboards[c.req.Dashboard.Id] = c.before.stored
                              /\ (c.req.Dashboard.Id \in provisioned) = c.before.record

\* the step part of C11: the dispatch of the compound command writes a
\* dashboard and its ProvisioningRecord, or neither
C11_ProvisionedSaveStep ==
    \A p \in Procs :
        (call[p].op = "SaveProvisionedDashboard" /\ call[p].pc = "persist"
             /\ call'[p] # call[p])
            => \/ /\ dashboards' = dashboards
                  /\ provisioned' = provisioned
                  /\ call'[p].err # NoErr
               \/ \E id \in Ids :
                      /\ IsSome(dashboards'[id])
                      /\ provisioned' = provisioned \cup {id}
                      /\ \A j \in Ids \ {id} : dashboards'[j] = dashboards[j]
                      /\ call'[p].err = NoErr

\* C11: SaveProvisionedDashboard builds and checks permissions as the
\* synthetic admin (UserId 0, admin role, the request's OrgId, no token),
\* issues no mirror operation whatever user the request carried, and persists
\* through at most one compound command, dispatched after the permission
\* checks, which writes the dashboard and its ProvisioningRecord together or
\* neither of them.
C11_ProvisionedSave == []C11_ProvisionedSaveState /\ [][C11_ProvisionedSaveStep]_vars

\* C11 witness: a provisioned save whose request carried a user with a token
\* has written a dashboard and its record, neither of which existed before.
C11_Witness ==
    \E p \in Procs :
        /\ call[p].op = "SaveProvisionedDashboard"
        /\ call[p].req.User.Token # ""
        /\ ~IsSome(call[p].before.stored) /\ ~call[p].before.record
        /\ call[p].pc = "done"
        /\ IsSome(call[p].result)
        /\ Val(call[p].result).Id \in provisioned
        /\ ~Called(call[p].trace, "UpdateDashboard")

ProvisioningConflicts ==
    {"ErrDashboardCannotSaveProvisionedDashboard",
     "ErrDashboardCannotDeleteProvisionedDashboard"}

\* the step part of C12: what a call of UnprovisionDashboard changes
C12_UnprovisionStep ==
    \A p \in Procs :
        (call[p].pc = "idle" /\ call'[p].op = "UnprovisionDashboard")
            => /\ dashboards' = dashboards
               /\ provisioned' \in {provisioned, provisioned \ {call'[p].id}}
               /\ call'[p].err = NoErr => provisioned' = provisioned \ {call'[p].id}
               /\ call'[p].trace = << Ev("UnprovisionDashboardCommand", call'[p].id,
                                         call'[p].err) >>

\* the state part of C12: a call on a dashboard that has no ProvisioningRecord
\* when the call is entered is not refused with a provisioning conflict
C12_NoRecordNoConflict ==
    \A p \in Procs :
        LET c == call[p] IN
        /\ (c.op = "UnprovisionDashboard" /\ c.err = NoErr)
               => /\ c.id \notin provisioned
                  /\ dashboards[c.id] = c.before.stored
        /\ (c.op \in {"DeleteDashboard", "SaveDashboard"} /\ ~c.before.record)
               => /\ c.err \notin ProvisioningConflicts
                  /\ \A i \in Calls(c.trace, "GetProvisionedDashboardDataById") :
                         c.trace[i].r # "found"

\* C12: UnprovisionDashboard(id) dispatches one UnprovisionDashboardCommand;
\* when it succeeds the ProvisioningRecord of id is gone, and in every case
\* all dashboard rows and all other records are unchanged.  A DeleteDashboard
\* or SaveDashboard of a dashboard without record, as the one just
\* unprovisioned is, is not refused with a provisioning conflict.
C12_UnprovisionRemovesOnlyTheRecord ==
    []C12_NoRecordNoConflict /\ [][C12_UnprovisionStep]_vars

\* C12 witness: the record of a stored dashboard was removed while the
\* dashboard and the record of another dashboard stayed.
C12_Witness ==
    \E p \in Procs :
        /\ call[p].op = "UnprovisionDashboard"
        /\ call[p].pc = "done" /\ call[p].err = NoErr
        /\ call[p].before.record
        /\ IsSome(dashboards[call[p].id])
        /\ call[p].id \notin provisioned
        /\ OtherId \in provisioned /\ IsSome(dashboards[OtherId])

\* C12: a plain delete of a stored dashboard without record goes through
C12_DeleteReached ==
    \E p \in Procs :
        /\ call[p].op = "DeleteDashboard"
        /\ IsSome(call[p].before.stored) /\ ~call[p].before.record
        /\ call[p].pc = "done" /\ call[p].err = NoErr
        /\ ~IsSome(dashboards[call[p].id])

\* C13: when the build returns a command, the command's payload carries the
\* request's title and uid trimmed, the command has the FolderId, IsFolder and
\* PluginId of the request's dashboard and the OrgId, Message, Overwrite flag
\* and user id of the request, and its UpdatedAt is set, to the request's
\* time, exactly when that time is not zero.
C13_CommandCarriesRequest ==
    (built.pc = "built" /\ IsSome(built.out.cmd)) =>
        LET cmd == Val(built.out.cmd)
            dto == built.dto
            in == built.dto.Dashboard
        IN  /\ TrimmedFrom(in.Title, cmd.Dashboard.title)
            /\ TrimmedFrom(in.Uid, cmd.Dashboard.uid)
            /\ cmd.Dashboard.id = in.Id
            /\ cmd.Dashboard.version = in.Version
            /\ cmd.FolderId = in.FolderId
            /\ cmd.IsFolder = in.IsFolder
            /\ cmd.PluginId = in.PluginId
            /\ cmd.OrgId = dto.OrgId
            /\ cmd.Message = dto.Message
            /\ cmd.Overwrite = dto.Overwrite
            /\ cmd.UserId = dto.User.UserId
            /\ IsSome(cmd.UpdatedAt) <=> dto.UpdatedAt # 0
            /\ IsSome(cmd.UpdatedAt) => Val(cmd.UpdatedAt) = dto.UpdatedAt

\* C13 witness: a command was built from a request of another org than the
\* user's, with a padded title, a plugin, a message and a time.
C13_Witness ==
    /\ built.pc = "built"
    /\ IsSome(built.out.cmd)
    /\ built.dto.OrgId # built.dto.User.OrgId
    /\ built.dto.Dashboard.Title # built.out.dash.Title
    /\ built.dto.Dashboard.PluginId = "plugin"
    /\ built.dto.Message = "msg"
    /\ Val(built.out.cmd).UpdatedAt = Some(7)

\* C13: a command without time is built from a request whose time is zero
C13_ZeroTimeReached ==
    /\ built.pc = "built"
    /\ IsSome(built.out.cmd)
    /\ built.dto.UpdatedAt = 0
    /\ built.dto.Dashboard.PluginId = "plugin"
    /\ Val(built.out.cmd).UpdatedAt = None

\* the events c of a trace, in order
RECURSIVE Events(_, _)
Events(trace, c) ==
    IF trace = <<>> THEN <<>>
    ELSE (IF Head(trace).c = c THEN <<Head(trace)>> ELSE <<>>) \o Events(Tail(trace), c)

\* SaveDashboard of call c is past its mirror block
MirrorDone(c) ==
    /\ c.op = "SaveDashboard"
    /\ c.buildErr = NoErr
    /\ c.dto.User.Token # ""
    /\ c.pc # "mirror"

\* op is the mirror operation act on dashboard d in folder f with message msg
IsMirrorOp(op, act, d, f, msg) ==
    /\ op.act = act
    /\ op.id = d.Id
    /\ op.folder \in {f, -1}
    /\ op.msg = msg

\* the previous version of call c's dashboard is in another folder
FolderMove(c) ==
    /\ c.dto.Dashboard.Version # 0
    /\ Events(c.trace, "GetDashboardQuery")[1].r = NoErr
    /\ Val(c.before.stored).FolderId # c.dto.Dashboard.FolderId

\* the cases of C14 other than the folder move
C14_OtherCases(c) ==
    LET d == c.dto.Dashboard
        lookups == Events(c.trace, "GetDashboardQuery")
        ops == Events(c.trace, "UpdateDashboard")
    IN  /\ Len(lookups) = (IF d.Version = 0 THEN 0 ELSE 1)
        /\ \A i \in Calls(c.trace, "GetDashboardQuery") :
               \A j \in Calls(c.trace, "UpdateDashboard") : i < j
        /\ \A i \in 1..Len(lookups) :
               /\ lookups[i].id = d.Id
               /\ lookups[i].r = NoErr <=> IsSome(c.before.stored)
                                             /\ lookups[i].r # "ErrQuery"
        /\ (d.Version = 0 \/ lookups[1].r # NoErr)
               => /\ Len(ops) = 1
                  /\ IsMirrorOp(ops[1], "create", d, d.FolderId, "")
        /\ (d.Version # 0 /\ lookups[1].r = NoErr
                /\ Val(c.before.stored).FolderId = d.FolderId)
               => /\ Len(ops) = 1
                  /\ IsMirrorOp(ops[1], "update", d, d.FolderId, c.dto.Message)

C14_UpdateReached ==
    \E p \in Procs :
        /\ MirrorDone(call[p])
        /\ Len(Events(call[p].trace, "UpdateDashboard")) = 1
        /\ Events(call[p].trace, "UpdateDashboard")[1].act = "update"
        /\ Events(call[p].trace, "UpdateDashboard")[1].msg = "msg"

BuildCalls ==
    {"ValidateDashboardAlerts", "ValidateDashboardBeforeSave", "CanSave",
     "GetProvisionedDashboardDataById"}

MirrorCalls == {"GetDashboardQuery", "UpdateDashboard"}

\* the events of the steps come in the order build, mirror, persist, alerts
StepOrder(trace) ==
    LET rank(e) == CASE e.c \in BuildCalls -> 1
                     [] e.c \in MirrorCalls -> 2
                     [] e.c = "SaveDashboardCommand" -> 3
                     [] e.c = "UpdateDashboardAlerts" -> 4
                     [] OTHER -> 0
    IN  \A i, j \in 1..Len(trace) : i < j => rank(trace[i]) <= rank(trace[j])

\* the order of SaveDashboard's steps, up to the outcome that the mirror
\* block must have had before the persist command: MirrorOk(ops)
SaveDashboardOrder(c, MirrorOk(_)) ==
    LET ops == Events(c.trace, "UpdateDashboard")
        persists == Events(c.trace, "SaveDashboardCommand")
        alerts == Events(c.trace, "UpdateDashboardAlerts")
    IN  /\ StepOrder(c.trace)
        /\ c.buildErr # NoErr
               => /\ \A i \in 1..Len(c.trace) : c.trace[i].c \in BuildCalls
                  /\ c.pc = "done" /\ c.err = c.buildErr
        /\ c.dto.User.Token = "" => \A i \in 1..Len(c.trace) : c.trace[i].c \notin MirrorCalls
        /\ Len(persists) <= 1
        /\ Len(persists) = 1
               => /\ c.buildErr = NoErr
                  /\ c.dto.User.Token # "" => ops # <<>>
                  /\ MirrorOk(ops)
        /\ Len(alerts) <= 1
        /\ Len(alerts) = 1 => (Len(persists) = 1 /\ persists[1].r = NoErr)
        /\ IsSome(c.result)
               => /\ c.pc = "done" /\ c.err = NoErr
                  /\ c.buildErr = NoErr
                  /\ MirrorOk(ops)
                  /\ Len(persists) = 1 /\ persists[1].r = NoErr
                  /\ Len(alerts) = 1 /\ alerts[1].r = NoErr
                  /\ c.result = c.saved

AllSucceeded(ops) == \A i \in 1..Len(ops) : ops[i].r = NoErr

LastSucceeded(ops) == ops # <<>> => ops[Len(ops)].r = NoErr

\* C15: SaveDashboard builds, then runs the mirror operations (only for a
\* user with a token), then dispatches the save command, then synchronises
\* the alerts: nothing follows a failed build, the save command is dispatched
\* at most once and only after a successful build and mirror operations that
\* all succeeded, the alerts are synchronised only after a successful save
\* command, and a dashboard is returned only when every step succeeded.
C15_SaveDashboardStrictOrder ==
    \A p \in Procs :
        call[p].op = "SaveDashboard" => SaveDashboardOrder(call[p], AllSucceeded)

\* the order of C15 holds when only the last mirror operation is required to
\* have succeeded before the save command
SaveDashboardOrderLastMirror ==
    \A p \in Procs :
        call[p].op = "SaveDashboard" => SaveDashboardOrder(call[p], LastSucceeded)

\* the error of the first failing check of a list of checks, nil without one
FirstFailing(checks) ==
    IF \E i \in 1..Len(checks) : checks[i].fails
    THEN checks[CHOOSE i \in 1..Len(checks) :
                    checks[i].fails /\ \A j \in 1..(i - 1) : ~checks[j].fails].err
    ELSE NoErr

\* the checks the build makes on the normalized dashboard d itself, in the claimed order
LocalOrder(d) ==
    << [fails |-> Len(d.Title) = 0, err |-> "ErrDashboardTitleEmpty"],
       [fails |-> d.IsFolder /\ d.FolderId > 0, err |-> "ErrDashboardFolderCannotHaveParent"],
       [fails |-> d.IsFolder /\ [i \in 1..Len(d.Title) |-> ToLower(d.Title[i])]
                                    = <<"g", "e", "n", "e", "r", "a", "l">>,
        err |-> "ErrDashboardFolderNameExists"],
       [fails |-> \E i \in 1..Len(d.Uid) : d.Uid[i] \notin UidChars,
        err |-> "ErrDashboardInvalidUid"],
       [fails |-> Len(d.Uid) > 40, err |-> "ErrDashboardUidToLong"] >>

\* the collaborator calls of a build that fails nowhere, in the claimed order
CollaboratorOrder(d, validateAlerts, validateProvisionedDashboard, folderChanged) ==
    (IF validateAlerts THEN << [c |-> "ValidateDashboardAlerts", id |-> d.Id] >> ELSE <<>>)
    \o << [c |-> "ValidateDashboardBeforeSave", id |-> d.Id] >>
    \o (IF folderChanged THEN << [c |-> "CanSave", id |-> d.FolderId] >> ELSE <<>>)
    \o (IF validateProvisionedDashboard
        THEN << [c |-> "GetProvisionedDashboardDataById", id |-> d.Id] >> ELSE <<>>)
    \o << [c |-> "CanSave", id |-> IF d.Id = 0 THEN d.FolderId ELSE d.Id] >>

\* the error the build returns for the answer of a collaborator
AnswerErr(e) ==
    CASE e.c = "CanSave" ->
             (CASE e.r = "yes" -> NoErr
                [] e.r = "no" -> "ErrDashboardUpdateAccessDenied"
                [] OTHER -> "ErrGuardian")
      [] e.c = "GetProvisionedDashboardDataById" ->
             (CASE e.r = Nil -> NoErr
                [] e.r = "found" -> "ErrDashboardCannotSaveProvisionedDashboard"
                [] OTHER -> e.r)
      [] OTHER -> e.r

\* C16: the build returns the error of the first failing check in the order
\* empty title, folder with parent, reserved folder name, uid shape, uid
\* length, and calls no collaborator then; otherwise it calls the
\* collaborators in the order alert validation (if enabled), pre-save
\* validation, save permission on the new folder (if the stored dashboard is
\* in another folder), provisioning lookup (if enabled), final save
\* permission, stops at the first one that fails and returns its error: a
\* guardian's own error if it has one, ErrDashboardUpdateAccessDenied for a
\* plain denial.  A command is returned only when all of them passed.
C16_FirstFailingCheckWins ==
    built.pc = "built" =>
        LET o == built.out
            d == o.dash
            local == FirstFailing(LocalOrder(d))
            stored == IF d.Id \in DOMAIN dashboards THEN dashboards[d.Id] ELSE None
            folderChanged == IsSome(stored) /\ Val(stored).FolderId # d.FolderId
            order == CollaboratorOrder(d, built.validateAlerts,
                                       built.validateProvisionedDashboard, folderChanged)
            n == Len(o.trace)
        IN  IF local # NoErr
            THEN o.err = local /\ n = 0 /\ ~IsSome(o.cmd)
            ELSE /\ n >= 1 /\ n <= Len(order)
                 /\ \A i \in 1..n : /\ o.trace[i].c = order[i].c
                                     /\ o.trace[i].id = order[i].id
                 /\ \A i \in 1..(n - 1) : AnswerErr(o.trace[i]) = NoErr
                 /\ o.err = AnswerErr(o.trace[n])
                 /\ o.err = NoErr => n = Len(order)
                 /\ IsSome(o.cmd) <=> o.err = NoErr
                 /\ \A i \in 1..n :
                        /\ o.trace[i].c = "ValidateDashboardBeforeSave"
                               => (o.trace[i].r = "ErrDashboardVersionMismatch"
                                      <=> /\ IsSome(stored)
                                          /\ Val(stored).Version # d.Version
                                          /\ ~built.dto.Overwrite)
                        /\ o.trace[i].c = "GetProvisionedDashboardDataById"
                               => (o.trace[i].r = "found" => d.Id \in provisioned)
                                  /\ (o.trace[i].r = Nil => d.Id \notin provisioned)

\* C16 witness: a provisioned dashboard moved to another folder was refused
\* by the new folder's guardian, and the provisioning lookup was not made.
C16_Witness ==
    /\ built.pc = "built"
    /\ built.validateProvisionedDashboard
    /\ built.dto.Dashboard.Id \in provisioned
    /\ built.out.err = "ErrDashboardUpdateAccessDenied"
    /\ built.out.trace[Len(built.out.trace)].c = "CanSave"
    /\ built.out.trace[Len(built.out.trace)].id = built.dto.Dashboard.FolderId
    /\ ~Called(built.out.trace, "GetProvisionedDashboardDataById")

\* C16: a guardian's own error, and an uid both misshapen and too long, are reached
C16_GuardianErrorReached ==
    /\ built.pc = "built"
    /\ built.out.err = "ErrGuardian"
    /\ built.out.trace[Len(built.out.trace)].r = "err"

C16_ShapeBeforeLengthReached ==
    /\ built.pc = "built"
    /\ Len(built.dto.Dashboard.Uid) > 40
    /\ built.out.err = "ErrDashboardInvalidUid"

\* C17: every mirror operation made through the GitLab connector returns
\* success or ErrDashboardGitlabSync, for an org without repository mapping
\* as for a failed commit.
C17_ConnectorReturnsSyncErrorOnly ==
    \A p \in Procs :
        LET c == call[p] IN
        (c.op \in {"SaveDashboard", "ImportDashboard"}
             /\ SocialMap(c.dto.User.AuthModule) = "SocialGitlab")
            => \A i \in Calls(c.trace, "UpdateDashboard") :
                   /\ c.trace[i].r \in {NoErr, "ErrDashboardGitlabSync"}
                   /\ ~IsSome(getRepo(c.dto.Dashboard.OrgId))
                          => c.trace[i].r = "ErrDashboardGitlabSync"

\* the outcomes of C17 for an org that has a repository mapping
ConnectorWithRepoReturnsSyncErrorOnly ==
    \A p \in Procs :
        LET c == call[p] IN
        (c.op \in {"SaveDashboard", "ImportDashboard"}
             /\ SocialMap(c.dto.User.AuthModule) = "SocialGitlab"
             /\ IsSome(getRepo(c.dto.Dashboard.OrgId)))
            => \A i \in Calls(c.trace, "UpdateDashboard") :
                   c.trace[i].r \in {NoErr, "ErrDashboardGitlabSync"}

\* a UserInfo call has returned after a group listing whose last fetch failed
GroupFetchFailed ==
    /\ groups.pc = "userinfo"
    /\ groups.fetched # <<>>
    /\ groups.server[groups.fetched[Len(groups.fetched)]].kind # "ok"

SomeAllowed(allowedGroups, gs) ==
    \E i \in 1..Len(allowedGroups), j \in 1..Len(gs) : allowedGroups[i] = gs[j]

\* C18 as claimed: under a non-empty allow-list, a UserInfo whose group
\* listing failed on some page has an empty group list and is rejected with
\* ErrMissingGroupMembership.
C18_FetchFailureAlwaysRejects ==
    (GroupFetchFailed /\ groups.allowedGroups # <<>>)
        => /\ groups.groups = <<>>
           /\ groups.err = "ErrMissingGroupMembership"
           /\ ~IsSome(groups.info)

\* C18 as amended: under a non-empty allow-list, a UserInfo whose group
\* listing failed on the first page has an empty group list and is rejected
\* with ErrMissingGroupMembership; when a later page failed, the group list
\* holds the groups of the pages before it and the call is rejected exactly
\* when none of them is allowed.
C18_FirstPageFailureRejects ==
    (GroupFetchFailed /\ groups.allowedGroups # <<>>)
        => LET n == Len(groups.fetched)
           IN  /\ groups.groups = Concat(groups.server, SubSeq(groups.fetched, 1, n - 1))
               /\ n = 1 => /\ groups.groups = <<>>
                            /\ groups.err = "ErrMissingGroupMembership"
                            /\ ~IsSome(groups.info)
               /\ groups.err = (IF SomeAllowed(groups.allowedGroups, groups.groups)
                                THEN NoErr ELSE "ErrMissingGroupMembership")
               /\ IsSome(groups.info) <=> groups.err = NoErr

\* C18 witness: the first page of the listing could not be fetched and the
\* user was rejected under a non-empty allow-list.
C18_Witness ==
    /\ GroupFetchFailed
    /\ groups.fetched = <<1>>
    /\ groups.allowedGroups = <<"a">>
    /\ groups.err = "ErrMissingGroupMembership"

\* C18: a user accepted by the groups of the first page although the second
\* page failed is reached
C18_PartialListAcceptedReached ==
    /\ GroupFetchFailed
    /\ groups.fetched = <<1, 2>>
    /\ groups.allowedGroups = <<"a">>
    /\ groups.err = NoErr
    /\ IsSome(groups.info)

\* C19: UserInfo returns an error and no user info for an account whose
\* state is not "active", without having fetched a page of groups; for an
\* active account it fetches the groups and returns the user info, with the
\* groups fetched, when the allow-list is empty or names one of them, and
\* ErrMissingGroupMembership otherwise.
C19_UserInfo ==
    /\ ("user" \in DOMAIN groups /\ groups.pc # "userinfo")
           => (groups.user.kind = "ok" /\ groups.user.State = "active")
    /\ groups.pc = "userinfo"
           => IF groups.user.kind = "ok" /\ groups.user.State = "active"
              THEN /\ groups.fetched # <<>>
                   /\ groups.fetched[1] = 1
                   /\ IF groups.allowedGroups = <<>>
                         \/ SomeAllowed(groups.allowedGroups, groups.groups)
                      THEN /\ groups.err = NoErr
                           /\ groups.info = Some([Groups |-> groups.groups])
                      ELSE /\ groups.err = "ErrMissingGroupMembership"
                           /\ groups.info = None
              ELSE /\ groups.err \notin {NoErr, "ErrMissingGroupMembership"}
                   /\ groups.info = None
                   /\ groups.fetched = <<>>

\* C19 witness: an account reported as blocked was refused before any page
\* of groups was fetched.
C19_Witness ==
    /\ groups.pc = "userinfo"
    /\ groups.user.kind = "ok"
    /\ groups.user.State = "blocked"
    /\ groups.err = "User is inactive"
    /\ groups.fetched = <<>>

\* C19: an active account admitted by its groups, and one refused, are reached
C19_AdmittedReached ==
    /\ groups.pc = "userinfo"
    /\ groups.user.State = "active"
    /\ groups.allowedGroups = <<"c", "b">>
    /\ groups.err = NoErr
    /\ Len(groups.fetched) = 3

C19_RefusedReached ==
    /\ groups.pc = "userinfo"
    /\ groups.user.State = "active"
    /\ groups.allowedGroups = <<"A">>
    /\ groups.groups = <<"a">>
    /\ groups.err = "ErrMissingGroupMembership"

\* the urls of the listing from url on, following the next links: it ends
\* with a page that cannot be fetched or parsed, or with a page without next
\* link, or when n urls are listed
RECURSIVE Chain(_, _, _)
Chain(server, url, n) ==
    IF url = 0 \/ n = 0 THEN <<>>
    ELSE IF server[url].kind # "ok" THEN <<url>>
    ELSE <<url>> \o Chain(server, LinkedNext(server[url]), n - 1)

\* the listing comes back to a url already visited: more urls than pages
Cyclic(server) == Len(Chain(server, 1, MaxPages + 1)) > MaxPages

\* the state part of C20
C20_FetchesFollowTheChain ==
    /\ groups.pc = "returned"
           => /\ ~Cyclic(groups.server)
              /\ groups.fetched = Chain(groups.server, 1, MaxPages + 1)
              /\ \A i, j \in 1..Len(groups.fetched) :
                     i # j => groups.fetched[i] # groups.fetched[j]
    /\ (groups.pc = "page" /\ Cyclic(groups.server))
           => /\ groups.url # 0
              /\ groups.server[groups.url].kind = "ok"
              /\ groups.fetched = Chain(groups.server, 1, Len(groups.fetched))
              /\ Len(groups.fetched) < MaxFetches => ENABLED GetGroupsLoop

\* C20: when the next links from the first url end, in a page without next
\* link or in a page that cannot be fetched or parsed, GetGroups returns,
\* having fetched each url of the chain once, in order, and nothing after its
\* end (the empty next url is not fetched); when the next links come back to
\* a url already visited and every page parses, GetGroups never returns:
\* each turn of its loop finds a page and the next turn is taken.
C20_GetGroupsTermination ==
    /\ []C20_FetchesFollowTheChain
    /\ (groups.pc = "page" /\ ~Cyclic(groups.server)) ~> (groups.pc = "returned")
    /\ [][(groups.pc = "page" /\ Cyclic(groups.server)) => groups'.pc = "page"]_vars

\* C20 witness: a listing whose second page links back to the first has been
\* fetched as many times as the model follows it, and has not returned.
C20_Witness ==
    /\ groups.pc = "page"
    /\ Cyclic(groups.server)
    /\ Len(groups.fetched) = MaxFetches
    /\ groups.fetched[1] = 1 /\ groups.fetched[2] = 2 /\ groups.fetched[3] = 1

\* C20: a chain of all pages, the last one without next link, has returned
C20_FiniteChainReached ==
    /\ groups.pc = "returned"
    /\ Len(groups.fetched) = MaxPages
    /\ groups.server[groups.fetched[MaxPages]].kind = "ok"

\* C21: SaveDashboard looks the ProvisioningRecord up once, during its
\* build, and DeleteDashboard once, before its dispatch; once the lookup has
\* found no record, the save command (the delete command) is dispatched and
\* can succeed whether or not a concurrent SaveProvisionedDashboard has
\* created a record for the same id since, so a dashboard that has a record
\* at that time is overwritten (deleted, with its record) by the plain call.
C21_CheckThenActRace ==
    \A p \in Procs :
        LET c == call[p] IN
        /\ c.op \in {"SaveDashboard", "DeleteDashboard"}
               => /\ Cardinality(Calls(c.trace, "GetProvisionedDashboardDataById")) <= 1
                  /\ \A i \in Calls(c.trace, "GetProvisionedDashboardDataById") :
                         \A j \in Calls(c.trace, "SaveDashboardCommand")
                                   \cup Calls(c.trace, "DeleteDashboardCommand") :
                             i < j /\ c.trace[i].r = Nil
        /\ (c.op = "SaveDashboard" /\ c.pc = "persist")
               => LET id == PersistId(Val(c.cmd).Dashboard)
                  IN  (id \in Ids /\ PersistVersion(id) <= MaxVersion)
                          => ENABLED (Persist(p) /\ call'[p].pc = "alerts"
                                                /\ IsSome(dashboards'[id]))
        /\ (c.op = "DeleteDashboard" /\ c.pc = "delete" /\ IsSome(dashboards[c.id]))
               => ENABLED (DispatchDelete(p) /\ call'[p].err = NoErr
                                            /\ ~IsSome(dashboards'[c.id])
                                            /\ c.id \notin provisioned')

\* C21 witness: a plain save whose build found no record has overwritten the
\* dashboard that a concurrent provisioned save wrote, with its record, in
\* between.
C21_Witness ==
    /\ call[1].op = "SaveDashboard"
    /\ ~call[1].before.record
    /\ IsSome(call[1].saved)
    /\ call[2].op = "SaveProvisionedDashboard"
    /\ IsSome(call[2].saved)
    /\ Val(call[2].saved).Id = Val(call[1].saved).Id
    /\ Val(call[2].saved).Version < Val(call[1].saved).Version
    /\ Val(call[1].saved).Id \in provisioned
    /\ dashboards[Val(call[1].saved).Id] =
           Some([Version |-> Val(call[1].saved).Version,
                 FolderId |-> call[1].dto.Dashboard.FolderId])

\* C21: a plain delete whose check found no record has deleted the dashboard
\* and the record that a concurrent provisioned save wrote in between
C21_DeleteReached ==
    /\ call[1].op = "DeleteDashboard"
    /\ ~call[1].before.record
    /\ call[1].pc = "done" /\ call[1].err = NoErr
    /\ call[2].op = "SaveProvisionedDashboard"
    /\ IsSome(call[2].saved)
    /\ Val(call[2].saved).Id = call[1].id
    /\ call[1].id \notin provisioned
    /\ ~IsSome(dashboards[call[1].id])

\* the save command of call c was dispatched and failed
PersistFailed(c) ==
    \E i \in Calls(c.trace, "SaveDashboardCommand") : c.trace[i].r = "ErrPersist"

\* the commits call c made in the external mirror: the mirror operations that
\* succeeded through the GitLab connector
Commits(c) ==
    {i \in Calls(c.trace, "UpdateDashboard") :
        c.trace[i].r = NoErr /\ SocialMap(c.dto.User.AuthModule) = "SocialGitlab"}

\* C22: in SaveDashboard and ImportDashboard every mirror operation precedes
\* the save command; when the save command fails the call returns its error
\* and no dashboard, the store is as it was, and the call does nothing more:
\* for a user of the GitLab connector the commit made before it stays in the
\* mirror, which then holds a change the store does not.
C22_MirrorCommitNotReverted ==
    \A p \in Procs :
        LET c == call[p] IN
        c.op \in {"SaveDashboard", "ImportDashboard"}
            => /\ \A i \in Calls(c.trace, "UpdateDashboard") :
                      \A j \in Calls(c.trace, "SaveDashboardCommand") : i < j
               /\ PersistFailed(c)
                      => /\ c.pc = "done"
                         /\ c.err = "ErrPersist"
                         /\ ~IsSome(c.result) /\ ~IsSome(c.saved)
                         /\ c.trace[Len(c.trace)].c = "SaveDashboardCommand"
                         /\ c.req.Dashboard.Id \in Ids
                                => dashboards[c.req.Dashboard.Id] = c.before.stored
                         /\ c.dto.User.Token # "" => Called(c.trace, "UpdateDashboard")
                         /\ SocialMap(c.dto.User.AuthModule) = "SocialGitlab"
                                => /\ Commits(c) # {}
                                   /\ Events(c.trace, "UpdateDashboard")
                                          [Len(Events(c.trace, "UpdateDashboard"))].r = NoErr

\* C22 witness: a save whose mirror update was committed has failed at the
\* save command; the stored dashboard is the one from before the call.
C22_Witness ==
    \E p \in Procs :
        /\ call[p].op = "SaveDashboard"
        /\ PersistFailed(call[p])
        /\ \E i \in Commits(call[p]) : call[p].trace[i].act = "update"
        /\ call[p].err = "ErrPersist"
        /\ IsSome(call[p].before.stored)
        /\ dashboards[call[p].req.Dashboard.Id] = call[p].before.stored

\* C22: the same for an import
C22_ImportReached ==
    \E p \in Procs :
        /\ call[p].op = "ImportDashboard"
        /\ PersistFailed(call[p])
        /\ Commits(call[p]) # {}
        /\ call[p].err = "ErrPersist"

\* the provider names that NewOAuthService registers, and those among them
\* whose connector has only the UpdateDashboard of SocialBase
Registered == {"github", "gitlab", "google", "generic_oauth", "grafana_com"}
WithoutMirroring == Registered \ {"gitlab"}

\* call c, of a user with a token, is past its mirror block
MirrorStepDone(c) ==
    /\ c.op \in {"SaveDashboard", "ImportDashboard"}
    /\ c.buildErr = NoErr
    /\ c.dto.User.Token # ""
    /\ c.pc # "mirror"

\* C23: the mirror step of SaveDashboard and ImportDashboard uses whatever
\* the registry holds under the user's AuthModule.  With a registered
\* connector that has no mirroring support every mirror operation returns
\* success, nothing is committed and the call goes on to the save command;
\* with an AuthModule without entry the first mirror operation aborts the
\* call abnormally: the call has neither an error value nor a dashboard, the
\* save command is never dispatched and the store is as it was.
C23_ConnectorLookedUpUnchecked ==
    \A p \in Procs :
        LET c == call[p]
            ops == Events(c.trace, "UpdateDashboard")
        IN  /\ MirrorStepDone(c)
                   => /\ ops # <<>>
                      /\ c.dto.User.AuthModule \in WithoutMirroring
                             => /\ \A i \in 1..Len(ops) : ops[i].r = NoErr
                                /\ Commits(c) = {}
                                /\ c.pc = "persist" \/ Persisted(c.trace)
                      /\ c.dto.User.AuthModule \notin Registered
                             => /\ Len(ops) = 1 /\ ops[1].r = "panic"
                                /\ c.pc = "panic"
                                /\ c.err = NoErr
                                /\ ~IsSome(c.result) /\ ~IsSome(c.saved)
                                /\ ~Persisted(c.trace)
                                /\ c.trace[Len(c.trace)].c = "UpdateDashboard"
                                /\ c.req.Dashboard.Id \in Ids
                                       => dashboards[c.req.Dashboard.Id] = c.before.stored
            /\ c.pc = "panic"
                   => /\ MirrorStepDone(c)
                      /\ \/ c.dto.User.AuthModule \notin Registered
                         \/ /\ c.dto.User.AuthModule = "gitlab"
                            /\ ~IsSome(getRepo(c.dto.Dashboard.OrgId))

\* C23 witness: the save of a user whose AuthModule has no registry entry
\* was aborted at its first mirror operation.
C23_Witness ==
    \E p \in Procs :
        /\ call[p].op = "SaveDashboard"
        /\ call[p].dto.User.Token # ""
        /\ call[p].dto.User.AuthModule = "ldap"
        /\ call[p].pc = "panic"
        /\ ~Persisted(call[p].trace)

\* C23: a save through a connector without mirroring support was persisted and returned
C23_NoOpReached ==
    \E p \in Procs :
        /\ call[p].op \in {"SaveDashboard", "ImportDashboard"}
        /\ call[p].dto.User.AuthModule = "github"
        /\ Called(call[p].trace, "UpdateDashboard")
        /\ call[p].pc = "done"
        /\ IsSome(call[p].result)

====
